---- MODULE Spec2Model ----
\* Model of the ScoreBoard prediction engine (src/odd_calculator.py) and of the
\* collaborators it calls (src/api_utils.py, src/getters.py, src/redis_utils.py).
\*
\* Python values are modelled as follows:
\*   - a str is a sequence of one-character strings (so split and int can be computed),
\*   - a float is an exact rational <<numerator, denominator>> in lowest terms,
\*   - None is the model value None, a dict with optional keys is a function,
\*   - a call that may raise returns [exc, val]: exc = "none" when it returned val.
EXTENDS Integers, Sequences, FiniteSets, TLC

\* ---------------------------------------------------------------- bounds
\* longest fractional-odds string enumerated for calculate_decimal_odds
MaxLen == 4
\* largest numerator / denominator of the quotes given to calculate_percentage
MaxNum == 3
MaxDen == 2
\* largest simulated score, league goal total and league win count
MaxScore == 1
MaxGoals == 2
MaxWins == 1
\* the longest run of simulations whose arrays are all enumerated
MaxSims == 3

\* ---------------------------------------------------------------- values
None == "None"

Abs(x) == IF x < 0 THEN -x ELSE x

\* The arithmetic is written as functions, so that TLC evaluates every argument once.
GCD[a \in Nat, b \in Nat] == IF b = 0 THEN a ELSE GCD[b, a % b]

\* the rational n/d (d # 0) in lowest terms with a positive denominator
RatF[n \in Int, d \in Int] ==
    LET g == GCD[Abs(n), Abs(d)] IN
    IF d < 0 THEN <<(-n) \div g, (-d) \div g>> ELSE <<n \div g, d \div g>>
Rat(n, d) == RatF[n, d]

Q == Int \X Int
RInt(n) == <<n, 1>>
RAddF[a \in Q, b \in Q] == RatF[a[1] * b[2] + b[1] * a[2], a[2] * b[2]]
RSubF[a \in Q, b \in Q] == RatF[a[1] * b[2] - b[1] * a[2], a[2] * b[2]]
RMulF[a \in Q, b \in Q] == RatF[a[1] * b[1], a[2] * b[2]]
RDivF[a \in Q, b \in Q] == RatF[a[1] * b[2], a[2] * b[1]]
RMinF[a \in Q, b \in Q] == IF b[1] * a[2] <= a[1] * b[2] THEN b ELSE a
RAdd(a, b) == RAddF[a, b]
RSub(a, b) == RSubF[a, b]
RMul(a, b) == RMulF[a, b]
\* a / b, for b # 0
RDiv(a, b) == RDivF[a, b]
\* min(a, b)
RMin(a, b) == RMinF[a, b]
RLe(a, b) == a[1] * b[2] <= b[1] * a[2]
RLt(a, b) == a[1] * b[2] < b[1] * a[2]
RIsZero(a) == a[1] = 0

\* the result of a call: returned val, or raised exc
Ok(v) == [exc |-> "none", val |-> v]
Raise(e) == [exc |-> e, val |-> None]

\* ---------------------------------------------------------------- str
\* a str: its symbols are characters or whole words
Str == Seq(STRING)

Digits == {"0", "1", "2", "3", "4", "5", "6", "7", "8", "9"}

DigitValue(c) ==
    CASE c = "0" -> 0 [] c = "1" -> 1 [] c = "2" -> 2 [] c = "3" -> 3 [] c = "4" -> 4
      [] c = "5" -> 5 [] c = "6" -> 6 [] c = "7" -> 7 [] c = "8" -> 8 [] c = "9" -> 9

\* the whitespace symbols
NL == "\n"
SP == " "
Whitespace == {NL, SP}

\* s[i..] starts with sep
MatchAt(s, sep, i) ==
    /\ i + Len(sep) - 1 <= Len(s)
    /\ \A j \in 1..Len(sep) : s[i + j - 1] = sep[j]

\* str.split(sep): the parts between the non-overlapping occurrences of sep, left to right
SplitF[s \in Str, sep \in Str] ==
    IF \A i \in 1..Len(s) : ~MatchAt(s, sep, i)
    THEN <<s>>
    ELSE LET k == CHOOSE i \in 1..Len(s) :
                      MatchAt(s, sep, i) /\ \A j \in 1..(i - 1) : ~MatchAt(s, sep, j)
         IN  <<SubSeq(s, 1, k - 1)>> \o SplitF[SubSeq(s, k + Len(sep), Len(s)), sep]
Split(s, sep) == SplitF[s, sep]

\* str.strip()
StripF[s \in Str] ==
    IF Len(s) = 0 THEN s
    ELSE IF s[1] \in Whitespace THEN StripF[Tail(s)]
    ELSE IF s[Len(s)] \in Whitespace THEN StripF[SubSeq(s, 1, Len(s) - 1)]
    ELSE s
Strip(s) == StripF[s]

\* the value of a string of decimal digits
DecimalValue[s \in Str] ==
    IF Len(s) = 0 THEN 0
    ELSE 10 * DecimalValue[SubSeq(s, 1, Len(s) - 1)] + DigitValue(s[Len(s)])

AllDigits(s) == Len(s) > 0 /\ \A i \in 1..Len(s) : s[i] \in Digits

\* int(s) of a stripped s: an optional sign and at least one digit
IntLiteral[t \in Str] ==
    IF AllDigits(t) THEN Ok(DecimalValue[t])
    ELSE IF Len(t) > 1 /\ t[1] = "-" /\ AllDigits(Tail(t)) THEN Ok(-DecimalValue[Tail(t)])
    ELSE IF Len(t) > 1 /\ t[1] = "+" /\ AllDigits(Tail(t)) THEN Ok(DecimalValue[Tail(t)])
    ELSE Raise("ValueError")

\* int(s): surrounding whitespace is ignored; ValueError when s is no int literal
ParseInt(s) == IntLiteral[StripF[s]]

\* numerator, denominator = map(int, parts): ValueError unless there are exactly two
\* parts and both are int literals
UnpackTwoInts[parts \in Seq(Str)] ==
    IF Len(parts) # 2 THEN Raise("ValueError")
    ELSE IF ParseInt(parts[1]).exc # "none" \/ ParseInt(parts[2]).exc # "none"
         THEN Raise("ValueError")
    ELSE Ok(<<ParseInt(parts[1]).val, ParseInt(parts[2]).val>>)

\* map(int, s.split('/')) unpacked into two names
ParseFraction(s) == UnpackTwoInts[SplitF[s, <<"/">>]]

\* str(n) for n >= 0
IntToStr[n \in Nat] ==
    LET d == <<"0", "1", "2", "3", "4", "5", "6", "7", "8", "9">>
    IN  IF n < 10 THEN <<d[n + 1]>> ELSE IntToStr[n \div 10] \o <<d[(n % 10) + 1]>>

\* the quote "n/d"
Fraction(n, d) == IntToStr[n] \o <<"/">> \o IntToStr[d]

\* ---------------------------------------------------------------- Odds Normalizer
\* calculate_decimal_odds: 1 + N/D; only ValueError is caught and replaced by 2.0
calculate_decimal_odds(fractional_odds) ==
    LET p == ParseFraction(fractional_odds) IN
    IF p.exc = "ValueError" THEN Ok(RInt(2))
    ELSE IF p.val[2] = 0 THEN Raise("ZeroDivisionError")
    ELSE Ok(RAdd(RInt(1), Rat(p.val[1], p.val[2])))

\* round(x, 2) in hundredths: the nearest integer to 100 * x, ties to the even one
RoundHalfEven(x) ==
    LET f == x[1] \div x[2]
        r == x[1] - f * x[2]
    IN  IF 2 * r < x[2] THEN f
        ELSE IF 2 * r > x[2] THEN f + 1
        ELSE IF f % 2 = 0 THEN f ELSE f + 1

Round2(x) == Rat(RoundHalfEven(RMul(x, RInt(100))), 100)

\* the order in which the API lists the 1X2 choices, kept by the dict odds_1x2
OutcomeOrder == <<"1", "X", "2">>
Outcomes == {OutcomeOrder[i] : i \in 1..Len(OutcomeOrder)}

\* the loop body of calculate_percentage for one quote: D / (N + D), no try/except
implied_probability(fractional_value) ==
    LET p == ParseFraction(fractional_value) IN
    IF p.exc # "none" THEN Raise("ValueError")
    ELSE IF p.val[1] + p.val[2] = 0 THEN Raise("ZeroDivisionError")
    ELSE Ok(Rat(p.val[2], p.val[1] + p.val[2]))

RECURSIVE RSum(_, _)
RSum(f, S) ==
    IF S = {} THEN RInt(0)
    ELSE LET o == CHOOSE x \in S : TRUE IN RAdd(f[o], RSum(f, S \ {o}))

\* calculate_percentage (mutant: the probabilities are not divided by their total)
calculate_percentage_unnormalised(odds) ==
    LET probs == [o \in DOMAIN odds |-> implied_probability(odds[o].fractional_value)]
    IN  IF \E o \in DOMAIN odds : probs[o].exc # "none" THEN Raise("ValueError")
        ELSE Ok([o \in DOMAIN odds |-> Round2(RMul(probs[o].val, RInt(100)))])

\* calculate_percentage: implied probabilities, normalised by their total, times 100,
\* each rounded to 2 decimals; the first quote (in dict order) that fails raises
calculate_percentage(odds) ==
    LET probs == [o \in DOMAIN odds |-> implied_probability(odds[o].fractional_value)]
        bad == {i \in 1..Len(OutcomeOrder) :
                    OutcomeOrder[i] \in DOMAIN odds /\ probs[OutcomeOrder[i]].exc # "none"}
        first == CHOOSE i \in bad : \A j \in bad : i <= j
        total_probability == RSum([o \in DOMAIN odds |-> probs[o].val], DOMAIN odds)
    IN  IF bad # {} THEN Raise(probs[OutcomeOrder[first]].exc)
        ELSE IF DOMAIN odds = {} THEN Ok(odds)
        ELSE IF RIsZero(total_probability) THEN Raise("ZeroDivisionError")
        ELSE Ok([o \in DOMAIN odds |->
                    Round2(RMul(RDiv(probs[o].val, total_probability), RInt(100)))])

\* ---------------------------------------------------------------- Form Extractor
\* a word starting with "Home" (str.startswith on the first line of a record)
HomeWords == {"Home", "Home:"}

\* the side test turned round: home unless the line is the tag "Away" (mutant)
not_tagged_Away(line) == Len(line) = 0 \/ line[1] # "Away"

startswith_Home(line) == Len(line) > 0 /\ line[1] \in HomeWords

\* the points of one result: 3 for a win, 1 for a draw, 0 for a loss
points[own \in Int, other \in Int] == IF own > other THEN 3 ELSE IF own = other THEN 1 ELSE 0

\* one iteration of the loop of calculate_form_and_goals: <<form points, goals>> of one
\* record; IndexError when it has no second line or no second score, ValueError when a
\* score is no int literal
form_and_goals_of[match \in Str] ==
    LET lines == SplitF[match, <<NL>>] IN
    IF Len(lines) < 2 THEN Raise("IndexError")
    ELSE LET scores == SplitF[lines[2], <<SP, "-", SP>>] IN
         IF ParseInt(scores[1]).exc # "none" THEN Raise("ValueError")
         ELSE IF Len(scores) < 2 THEN Raise("IndexError")
         ELSE IF ParseInt(scores[2]).exc # "none" THEN Raise("ValueError")
         ELSE IF startswith_Home(lines[1])
              THEN Ok(<<points[ParseInt(scores[1]).val, ParseInt(scores[2]).val],
                        ParseInt(scores[1]).val>>)
              ELSE Ok(<<points[ParseInt(scores[2]).val, ParseInt(scores[1]).val],
                        ParseInt(scores[2]).val>>)

\* the loop of calculate_form_and_goals: the sums over the records, in order; the first
\* record that cannot be parsed raises
form_and_goals_sum[matches \in Seq(Str)] ==
    IF Len(matches) = 0 THEN Ok(<<0, 0>>)
    ELSE IF form_and_goals_of[Head(matches)].exc # "none" THEN form_and_goals_of[Head(matches)]
    ELSE IF form_and_goals_sum[Tail(matches)].exc # "none" THEN form_and_goals_sum[Tail(matches)]
    ELSE Ok(<<form_and_goals_of[Head(matches)].val[1] + form_and_goals_sum[Tail(matches)].val[1],
              form_and_goals_of[Head(matches)].val[2] + form_and_goals_sum[Tail(matches)].val[2]>>)

calculate_form_and_goals(matches) == form_and_goals_sum[matches]

\* ---------------------------------------------------------------- Standings Accessor
\* get_team_position: the position of the first row of the team, 0 when there is none
\* get_team_position counting the rows from 0 (mutant)
get_team_position_from_zero(standings, team_id) ==
    LET rows == standings.rows
        hits == {i \in 1..Len(rows) : rows[i].team_id = team_id}
    IN  IF hits = {} THEN 0
        ELSE rows[CHOOSE i \in hits : \A j \in hits : i <= j].position - 1

get_team_position(standings, team_id) ==
    LET rows == standings.rows
        hits == {i \in 1..Len(rows) : rows[i].team_id = team_id}
    IN  IF hits = {} THEN 0
        ELSE rows[CHOOSE i \in hits : \A j \in hits : i <= j].position

\* the name looked up by get_team_data: next(... for row in rows if ...), None by default
team_name(standings, team_id) ==
    LET rows == standings.rows
        hits == {i \in 1..Len(rows) : rows[i].team_id = team_id}
    IN  IF hits = {} THEN None
        ELSE rows[CHOOSE i \in hits : \A j \in hits : i <= j].name

\* ---------------------------------------------------------------- Prediction Factor Combiner
\* dict.get(key, 0) on the league info
Get0(league_info, key) == IF key \in DOMAIN league_info THEN league_info[key] ELSE 0

decided_matches(league_info) ==
    Get0(league_info, "homeTeamWins") + Get0(league_info, "awayTeamWins")
        + Get0(league_info, "draws")

\* form_factor without the cap at 1 (mutant)
form_factor_uncapped(form) == Rat(form, 9)

form_factor(form) == RMin(Rat(form, 9), RInt(1))
\* odds is a rational; 1 / (odds + 1)
odds_factor(odds) == RDiv(RInt(1), RAdd(odds, RInt(1)))
position_factor(position) == Rat(20 - (IF position < 20 THEN position ELSE 20), 20)
\* min(goals / (total goals / decided * 3), 1), for total goals and decided nonzero
\* goals_factor with the goals of one match as the yardstick, not of three (mutant)
goals_factor_per_match(goals, league_info) ==
    RMin(RDiv(RInt(goals),
              RDiv(RInt(Get0(league_info, "goals")), RInt(decided_matches(league_info)))),
         RInt(1))

goals_factor(goals, league_info) ==
    RMin(RDiv(RInt(goals),
              RMul(Rat(Get0(league_info, "goals"), decided_matches(league_info)), RInt(3))),
         RInt(1))

\* home_advantage_factor with the same sign for both sides (mutant)
home_advantage_factor_unsigned(league_info, is_home) ==
    RSub(Rat(Get0(league_info, "homeTeamWins"), decided_matches(league_info)), Rat(1, 2))

home_advantage_factor(league_info, is_home) ==
    RMul(RSub(Rat(Get0(league_info, "homeTeamWins"), decided_matches(league_info)),
              Rat(1, 2)),
         RInt(IF is_home THEN 1 ELSE -1))

\* calculate_prediction_factor: the weighted sum of the five factors; ZeroDivisionError
\* when odds = -1, when no match is decided or when the league has no goals
calculate_prediction_factor(form, odds, position, goals, league_info, is_home) ==
    IF RIsZero(RAdd(odds, RInt(1))) THEN Raise("ZeroDivisionError")
    ELSE IF decided_matches(league_info) = 0 THEN Raise("ZeroDivisionError")
    ELSE IF Get0(league_info, "goals") = 0 THEN Raise("ZeroDivisionError")
    ELSE Ok(RAdd(RAdd(RAdd(RAdd(
            RMul(form_factor(form), Rat(35, 100)),
            RMul(odds_factor(odds), Rat(25, 100))),
            RMul(position_factor(position), Rat(15, 100))),
            RMul(goals_factor(goals, league_info), Rat(15, 100))),
            RMul(home_advantage_factor(league_info, is_home), Rat(1, 10))))

\* ---------------------------------------------------------------- Expected-Goals Model
\* calculate_expected_goals without the home boost of 1.1 (mutant)
calculate_expected_goals_no_boost(home_factor, away_factor, league_info) ==
    IF decided_matches(league_info) = 0 THEN Raise("ZeroDivisionError")
    ELSE LET league_avg_goals == Rat(Get0(league_info, "goals"), decided_matches(league_info))
         IN  Ok(<<RMul(league_avg_goals, RSub(RAdd(RInt(1), home_factor), away_factor)),
                  RMul(league_avg_goals, RSub(RAdd(RInt(1), away_factor), home_factor))>>)

\* calculate_expected_goals: <<home, away>>; ZeroDivisionError when no match is decided
calculate_expected_goals(home_factor, away_factor, league_info) ==
    IF decided_matches(league_info) = 0 THEN Raise("ZeroDivisionError")
    ELSE LET league_avg_goals == Rat(Get0(league_info, "goals"), decided_matches(league_info))
         IN  Ok(<<RMul(RMul(league_avg_goals,
                            RSub(RAdd(RInt(1), home_factor), away_factor)), Rat(11, 10)),
                  RMul(league_avg_goals,
                       RSub(RAdd(RInt(1), away_factor), home_factor))>>)

\* ---------------------------------------------------------------- Python values
\* None, where the other values are records (dicts)
PyNone == [none |-> TRUE]
\* what make_api_request returns for a 200 response that is not JSON: response.content
RawContent == [content |-> "<html>"]
IsBytes(x) == DOMAIN x = {"content"}
\* "not x" for None and for dicts
Not(x) == DOMAIN x = {} \/ x = PyNone
\* json.dumps / json.loads of a JSON value
json_dumps(v) == [json |-> v]
json_loads(b) == b.json

\* ---------------------------------------------------------------- Match Simulator
\* the arrays np.random.poisson(lam, n) may return: every sample is 0 when lam = 0;
\* otherwise any array of n samples up to MaxScore when n is small, and for a larger n
\* the arrays in which the first j samples, or the last sample alone, are MaxScore
PoissonArrays(lam, n) ==
    IF RIsZero(lam) THEN {[i \in 1..n |-> 0]}
    ELSE IF n <= MaxSims THEN [1..n -> 0..MaxScore]
    ELSE {[i \in 1..n |-> IF i <= j THEN MaxScore ELSE 0] : j \in {0, 1, n}}
         \cup {[i \in 1..n |-> IF i = n THEN MaxScore ELSE 0]}

\* simulate_multiple_matches: ValueError from numpy when a rate is negative
simulate_multiple_matches(home_expected_goals, away_expected_goals, num_simulations) ==
    IF home_expected_goals[1] < 0 \/ away_expected_goals[1] < 0
    THEN {Raise("ValueError")}
    ELSE {Ok([home_scores |-> h, away_scores |-> a]) :
            h \in PoissonArrays(home_expected_goals, num_simulations),
            a \in PoissonArrays(away_expected_goals, num_simulations)}

\* generate_prediction_message with a draw counted as a home win too (mutant)
generate_prediction_message_draw_as_win(home_team_name, away_team_name, home_scores, away_scores, home_expected_goals, away_expected_goals) ==
    LET n == IF Len(home_scores) < Len(away_scores) THEN Len(home_scores)
             ELSE Len(away_scores)
        home_wins == Cardinality({i \in 1..n : home_scores[i] >= away_scores[i]})
        away_wins == Cardinality({i \in 1..n : away_scores[i] > home_scores[i]})
        draws == Cardinality({i \in 1..n : home_scores[i] = away_scores[i]})
    IN  IF Len(home_scores) = 0 THEN Raise("ZeroDivisionError")
        ELSE Ok([simulations |-> Len(home_scores),
                 home_team_name |-> home_team_name,
                 away_team_name |-> away_team_name,
                 home_win_prob |-> Rat(home_wins, Len(home_scores)),
                 away_win_prob |-> Rat(away_wins, Len(home_scores)),
                 draw_prob |-> Rat(draws, Len(home_scores)),
                 home_expected_goals |-> home_expected_goals,
                 away_expected_goals |-> away_expected_goals])

\* generate_prediction_message: the figures printed in the message
generate_prediction_message(home_team_name, away_team_name, home_scores, away_scores, home_expected_goals, away_expected_goals) ==
    LET n == IF Len(home_scores) < Len(away_scores) THEN Len(home_scores)
             ELSE Len(away_scores)
        home_wins == Cardinality({i \in 1..n : home_scores[i] > away_scores[i]})
        away_wins == Cardinality({i \in 1..n : away_scores[i] > home_scores[i]})
        draws == Cardinality({i \in 1..n : home_scores[i] = away_scores[i]})
    IN  IF Len(home_scores) = 0 THEN Raise("ZeroDivisionError")
        ELSE Ok([simulations |-> Len(home_scores),
                 home_team_name |-> home_team_name,
                 away_team_name |-> away_team_name,
                 home_win_prob |-> Rat(home_wins, Len(home_scores)),
                 away_win_prob |-> Rat(away_wins, Len(home_scores)),
                 draw_prob |-> Rat(draws, Len(home_scores)),
                 home_expected_goals |-> home_expected_goals,
                 away_expected_goals |-> away_expected_goals])

\* ---------------------------------------------------------------- state
VARIABLES
    frac_in,          \* the argument of calculate_decimal_odds
    dec_out,          \* its result
    pct_in,           \* the argument of calculate_percentage
    pct_out,          \* its result
    r,                \* the Redis store: key -> value, for the keys that are set
    pc,               \* the stage predict_match is at
    match_id,         \* its argument
    match_details,    \* its locals, PyNone until assigned
    prediction_info,
    league_info,
    standings,
    home_team_data,
    away_team_data,
    factors,          \* <<home_factor, away_factor>>
    expected_goals,   \* <<home_expected_goals, away_expected_goals>>
    scores,           \* [home_scores, away_scores]
    odds_1x2,         \* what get_match_odds_1x2 returned to the last get_team_data
    result,           \* what predict_match returned, or the exception it raised
    calls,            \* the collaborators predict_match has called, in order
    args,             \* the arguments of a function called on its own
    ret,              \* its result
    rng,              \* the generator behind np.random: its seed and the draws made
    sims              \* the simulations in progress, one for each caller

odds_vars == <<frac_in, dec_out>>
pct_vars == <<pct_in, pct_out>>
locals == <<match_details, prediction_info, league_info, standings, home_team_data,
            away_team_data, factors, expected_goals, scores, odds_1x2>>
predict_vars == <<r, pc, match_id, locals, result, calls>>
fn_vars == <<args, ret>>
rng_vars == <<rng, sims>>
vars == <<odds_vars, pct_vars, predict_vars, fn_vars, rng_vars>>

Pending == [exc |-> "pending", val |-> None]

OddsIdle == frac_in = <<>> /\ dec_out = Pending
PctIdle == pct_in = <<>> /\ pct_out = Pending
FnIdle == args = <<>> /\ ret = Pending
RngIdle == rng = [seed |-> 0, draws |-> 0] /\ sims = <<>>

\* ---------------------------------------------------------------- the store and the API
\* r.set(key, value)
Set(store, key, value) ==
    [k \in DOMAIN store \cup {key} |-> IF k = key THEN value ELSE store[k]]

MatchIds == {"m1"}
HomeTeam == "T1"
AwayTeam == "T2"

\* GET /api/match/{id}: the ids of the event, "None" for one the payload lacks
Details(t, s, h, a, m) ==
    [tournament_id |-> t, season_id |-> s, home_team_id |-> h, away_team_id |-> a,
     id |-> m, home_team_name |-> "Home FC", away_team_name |-> "Away FC"]

\* what make_api_request returns for the match: None, the complete payload, or a
\* payload that lacks one of the ids or all of them
DetailsResponses(m) ==
    {PyNone,
     Details("t1", "s1", HomeTeam, AwayTeam, m),
     Details(None, "s1", HomeTeam, AwayTeam, m),
     Details("t1", None, HomeTeam, AwayTeam, m),
     Details("t1", "s1", None, AwayTeam, m),
     Details("t1", "s1", HomeTeam, None, m),
     Details(None, None, None, None, m)}

LeagueInfoKeys == {"goals", "homeTeamWins", "awayTeamWins", "draws"}

\* GET .../info: None, a payload without 'info', or one whose 'info' is a dict: the
\* empty dict or the four season counters
NoInfoKey == [other |-> TRUE]
LeagueInfoResponses ==
    {PyNone, NoInfoKey, [info |-> <<>>]}
    \cup {[info |-> [k \in LeagueInfoKeys |->
                        CASE k = "goals" -> g [] k = "homeTeamWins" -> hw
                          [] k = "awayTeamWins" -> aw [] k = "draws" -> d]] :
            g \in {0, MaxGoals}, hw \in 0..MaxWins, aw \in 0..1, d \in 0..1}

Row(t, p) == [team_id |-> t, position |-> p, name |-> t]
\* GET .../standings/total: None, or a table: empty, both teams, the away team alone
StandingsResponses ==
    {PyNone,
     [rows |-> <<>>],
     [rows |-> <<Row(HomeTeam, 1), Row(AwayTeam, 2)>>],
     [rows |-> <<Row(AwayTeam, 1)>>]}

Choices(home, away) ==
    [full_time |-> [choices |-> [n \in {"Home", "Away"} |->
        [fractional_value |-> IF n = "Home" THEN home ELSE away, change |-> 0]]]]
\* GET .../odds: None, a payload without a "Full time" market, or one with choices
OddsResponses ==
    {PyNone,
     [full_time |-> PyNone],
     [full_time |-> [choices |-> <<>>]],
     Choices(Fraction(1, 2), Fraction(5, 1)),
     Choices(Fraction(3, 0), Fraction(1, 1)),
     Choices(<<"x">>, Fraction(1, 1))}

\* the text of one result record as calculate_form_and_goals reads it
Record(tag, h, a) == <<tag, NL>> \o IntToStr[h] \o <<SP, "-", SP>> \o IntToStr[a]
\* the text format_last_three_matches writes for one event
Formatted(h, a) ==
    <<"Tournament:", SP, "League", NL, "Home FC", SP>> \o IntToStr[h] \o <<SP, "-", SP>>
        \o IntToStr[a] \o <<SP, "Away FC", NL, "Status:", SP, "Ended", NL>>

PrevKey(t) == <<"team_previous_matches", t>>
\* the store when the application starts: the recent results of the two teams are
\* absent, present in the format the Form Extractor reads, or present as formatted
EmptyStore == [k \in {} |-> PyNone]
InitialStores ==
    {EmptyStore,
     Set(Set(EmptyStore, PrevKey(HomeTeam), Record("Home", 2, 1) \o <<NL, NL>> \o Record("Away", 0, 1)),
         PrevKey(AwayTeam), Record("Away", 1, 1)),
     Set(EmptyStore, PrevKey(HomeTeam), Formatted(2, 1))}

\* ---------------------------------------------------------------- collaborators
\* fetch_and_store_match_details: the cached details, else the API response, stored
\* and returned when it is true in Python's sense; json.dumps raises TypeError for raw
\* content, which the function catches to return None. "requested" tells whether
\* make_api_request was called.
\* fetch_and_store_match_details that stores whatever the API returned (mutant)
fetch_and_store_match_details_unchecked(store, m, response) ==
    LET key == <<"match_details", m>> IN
    IF key \in DOMAIN store
    THEN [ret |-> json_loads(store[key]), r |-> store, requested |-> FALSE]
    ELSE [ret |-> IF Not(response) \/ IsBytes(response) THEN PyNone ELSE response,
          r |-> Set(store, key, json_dumps(response)), requested |-> TRUE]

fetch_and_store_match_details(store, m, response) ==
    LET key == <<"match_details", m>> IN
    IF key \in DOMAIN store
    THEN [ret |-> json_loads(store[key]), r |-> store, requested |-> FALSE]
    ELSE IF Not(response) \/ IsBytes(response)
         THEN [ret |-> PyNone, r |-> store, requested |-> TRUE]
    ELSE [ret |-> response, r |-> Set(store, key, json_dumps(response)),
          requested |-> TRUE]

\* get_match_prediction_info, the definition in force (the second one of the module):
\* a dict of six keys, whatever the payload holds
get_match_prediction_info(details) ==
    [tournament_id |-> details.tournament_id,
     season_id |-> details.season_id,
     home_team_id |-> details.home_team_id,
     away_team_id |-> details.away_team_id,
     home_team_name |-> details.home_team_name,
     away_team_name |-> details.away_team_name]

\* get_league_info: the 'info' of the response, None when there is none
get_league_info(response) ==
    IF response # PyNone /\ "info" \in DOMAIN response THEN response.info ELSE PyNone

\* get_standings / fetch_standings: the cached table, else the API response, stored
\* when it is true in Python's sense; store_standings raises TypeError from json.dumps
\* for raw content, before it writes. "requested" tells whether make_api_request was
\* called.
\* fetch_standings that returns the response of the API without storing it (mutant)
fetch_standings_unstored(store, league_id, season_id, response) ==
    LET key == <<"standings", league_id, season_id>>
        standings_data == IF key \in DOMAIN store THEN json_loads(store[key]) ELSE PyNone
    IN  IF ~Not(standings_data)
        THEN [ret |-> standings_data, r |-> store, exc |-> "none", requested |-> FALSE]
        ELSE [ret |-> response, r |-> store, exc |-> "none", requested |-> TRUE]

fetch_standings(store, league_id, season_id, response) ==
    LET key == <<"standings", league_id, season_id>>
        standings_data == IF key \in DOMAIN store THEN json_loads(store[key]) ELSE PyNone
    IN  IF ~Not(standings_data)
        THEN [ret |-> standings_data, r |-> store, exc |-> "none", requested |-> FALSE]
        ELSE IF Not(response)
             THEN [ret |-> response, r |-> store, exc |-> "none", requested |-> TRUE]
        ELSE IF IsBytes(response)
             THEN [ret |-> PyNone, r |-> store, exc |-> "TypeError", requested |-> TRUE]
        ELSE [ret |-> response,
              r |-> Set(Set(store, key, json_dumps(response)),
                        <<"standings_time", league_id, season_id>>, [last_fetched |-> 0]),
              exc |-> "none", requested |-> TRUE]

\* get_last_three_matches: the cached text split at the blank lines, its last three parts
\* get_last_three_matches without the cut to the last three records (mutant)
get_last_three_matches_uncut(store, team_id) ==
    IF PrevKey(team_id) \in DOMAIN store /\ Len(store[PrevKey(team_id)]) > 0
    THEN Split(store[PrevKey(team_id)], <<NL, NL>>)
    ELSE <<>>

\* get_last_three_matches that makes up a home win when nothing is cached (mutant)
get_last_three_matches_or_default(store, team_id) ==
    IF PrevKey(team_id) \in DOMAIN store /\ Len(store[PrevKey(team_id)]) > 0
    THEN LET matches == Split(store[PrevKey(team_id)], <<NL, NL>>) IN
         IF Len(matches) >= 3 THEN SubSeq(matches, Len(matches) - 2, Len(matches))
         ELSE matches
    ELSE <<Record("Home", 1, 0)>>

get_last_three_matches(store, team_id) ==
    IF PrevKey(team_id) \in DOMAIN store /\ Len(store[PrevKey(team_id)]) > 0
    THEN LET matches == Split(store[PrevKey(team_id)], <<NL, NL>>) IN
         IF Len(matches) >= 3 THEN SubSeq(matches, Len(matches) - 2, Len(matches))
         ELSE matches
    ELSE <<>>

\* get_match_odds: the cached odds, else the API response, stored when there is one
get_match_odds(store, m, response) ==
    LET key == <<"match_odds", m>> IN
    IF key \in DOMAIN store THEN [ret |-> json_loads(store[key]), r |-> store]
    ELSE IF response # PyNone
         THEN [ret |-> response, r |-> Set(store, key, json_dumps(response))]
    ELSE [ret |-> PyNone, r |-> store]

\* get_match_odds_1x2: the choices of the "Full time" market, None without one
get_match_odds_1x2(match_odds) ==
    IF match_odds = PyNone THEN PyNone ELSE match_odds.full_time

\* get_match_odds_1x2 has not been called
NotCalled == [called |-> FALSE]

\* get_team_data: the factor inputs of one team, with the 1X2 odds it was given. It raises what
\* calculate_form_and_goals or calculate_decimal_odds raise, and AttributeError when
\* there are no 1X2 odds (None.get); the odds fetched before that stay in the store.
get_team_data(store, team_id, m, table, info, is_home, response) ==
    LET last_matches == get_last_three_matches(store, team_id)
        fg == calculate_form_and_goals(last_matches)
        mo == get_match_odds(store, m, response)
        the_odds == get_match_odds_1x2(mo.ret)
        side == IF is_home THEN "Home" ELSE "Away"
        quote == IF side \in DOMAIN the_odds.choices
                 THEN the_odds.choices[side].fractional_value
                 ELSE Fraction(1, 1)
        odds == calculate_decimal_odds(quote)
    IN  IF fg.exc # "none" THEN [res |-> Raise(fg.exc), r |-> store, odds_1x2 |-> NotCalled]
        ELSE IF the_odds = PyNone
             THEN [res |-> Raise("AttributeError"), r |-> mo.r, odds_1x2 |-> the_odds]
        ELSE IF odds.exc # "none"
             THEN [res |-> Raise(odds.exc), r |-> mo.r, odds_1x2 |-> the_odds]
        ELSE [res |-> Ok([form |-> fg.val[1],
                          odds |-> odds.val,
                          position |-> get_team_position(table, team_id),
                          goals |-> fg.val[2],
                          league_info |-> info,
                          is_home |-> is_home,
                          name |-> team_name(table, team_id)]),
              r |-> mo.r, odds_1x2 |-> the_odds]

\* ---------------------------------------------------------------- predict_match
num_simulations == 100

\* the strings predict_match returns
details_failure(m) ==
    "Unable to fetch match details for match ID: " \o m \o ". Check if the match ID is correct."
extract_failure(m) ==
    "Unable to extract prediction info for match ID: " \o m \o ". Match details might be incomplete."
league_failure == "Unable to fetch league info."
standings_failure == "Unable to fetch standings."
\* how the prediction message starts; its figures are the report
prediction == "Predicted Average Score after"

Running == [status |-> "running", text |-> "", exc |-> "none", report |-> PyNone]
Returned(text, report) ==
    [status |-> "returned", text |-> text, exc |-> "none", report |-> report]
Raised(exc) == [status |-> "raised", text |-> "", exc |-> exc, report |-> PyNone]

PredictIdle ==
    /\ pc = "idle"
    /\ match_id = None
    /\ match_details = PyNone
    /\ prediction_info = PyNone
    /\ league_info = PyNone
    /\ standings = PyNone
    /\ home_team_data = PyNone
    /\ away_team_data = PyNone
    /\ factors = PyNone
    /\ expected_goals = PyNone
    /\ scores = PyNone
    /\ odds_1x2 = NotCalled
    /\ result = Running
    /\ calls = <<>>

Init ==
    /\ r \in InitialStores
    /\ PredictIdle
    /\ RngIdle
    /\ OddsIdle
    /\ PctIdle
    /\ FnIdle

\* predict_match(match_id) is called (the Predict button); the previous call is over
Predict ==
    /\ pc \in {"idle", "done"}
    /\ \E m \in MatchIds : match_id' = m
    /\ pc' = "match_details"
    /\ match_details' = PyNone
    /\ prediction_info' = PyNone
    /\ league_info' = PyNone
    /\ standings' = PyNone
    /\ home_team_data' = PyNone
    /\ away_team_data' = PyNone
    /\ factors' = PyNone
    /\ expected_goals' = PyNone
    /\ scores' = PyNone
    /\ odds_1x2' = NotCalled
    /\ result' = Running
    /\ calls' = <<>>
    /\ UNCHANGED <<r, odds_vars, pct_vars, fn_vars, rng_vars>>

\* lines 251-253
FetchMatchDetails ==
    /\ pc = "match_details"
    /\ \E response \in DetailsResponses(match_id) :
        LET f == fetch_and_store_match_details(r, match_id, response) IN
        /\ r' = f.r
        /\ match_details' = f.ret
        /\ IF Not(f.ret)
           THEN /\ result' = Returned(details_failure(match_id), PyNone)
                /\ pc' = "done"
           ELSE /\ result' = result
                /\ pc' = "prediction_info"
    /\ calls' = Append(calls, "fetch_and_store_match_details")
    /\ UNCHANGED <<match_id, prediction_info, league_info, standings, home_team_data,
                   away_team_data, factors, expected_goals, scores, odds_1x2, odds_vars, pct_vars, fn_vars, rng_vars>>

\* lines 255-259
ExtractPredictionInfo ==
    /\ pc = "prediction_info"
    /\ prediction_info' = get_match_prediction_info(match_details)
    /\ IF Not(get_match_prediction_info(match_details))
       THEN /\ result' = Returned(extract_failure(match_id), PyNone)
            /\ pc' = "done"
       ELSE /\ result' = result
            /\ pc' = "league_info"
    /\ calls' = Append(calls, "get_match_prediction_info")
    /\ UNCHANGED <<r, match_id, match_details, league_info, standings, home_team_data,
                   away_team_data, factors, expected_goals, scores, odds_1x2, odds_vars, pct_vars, fn_vars, rng_vars>>

\* FetchLeagueInfo without the check of line 262 (mutant)
FetchLeagueInfo_unchecked ==
    /\ pc = "league_info"
    /\ \E response \in LeagueInfoResponses : league_info' = get_league_info(response)
    /\ result' = result
    /\ pc' = "standings"
    /\ calls' = Append(calls, "get_league_info")
    /\ UNCHANGED <<r, match_id, match_details, prediction_info, standings, home_team_data,
                   away_team_data, factors, expected_goals, scores, odds_1x2, odds_vars, pct_vars, fn_vars, rng_vars>>

\* lines 261-263
FetchLeagueInfo ==
    /\ pc = "league_info"
    /\ \E response \in LeagueInfoResponses :
        /\ league_info' = get_league_info(response)
        /\ IF Not(get_league_info(response))
           THEN /\ result' = Returned(league_failure, PyNone)
                /\ pc' = "done"
           ELSE /\ result' = result
                /\ pc' = "standings"
    /\ calls' = Append(calls, "get_league_info")
    /\ UNCHANGED <<r, match_id, match_details, prediction_info, standings, home_team_data,
                   away_team_data, factors, expected_goals, scores, odds_1x2, odds_vars, pct_vars, fn_vars, rng_vars>>

\* lines 265-267
FetchStandings ==
    /\ pc = "standings"
    /\ \E response \in StandingsResponses :
        LET f == fetch_standings(r, prediction_info.tournament_id,
                                 prediction_info.season_id, response) IN
        /\ r' = f.r
        /\ standings' = f.ret
        /\ IF Not(f.ret)
           THEN /\ result' = Returned(standings_failure, PyNone)
                /\ pc' = "done"
           ELSE /\ result' = result
                /\ pc' = "home_team_data"
    /\ calls' = Append(calls, "fetch_standings")
    /\ UNCHANGED <<match_id, match_details, prediction_info, league_info, home_team_data,
                   away_team_data, factors, expected_goals, scores, odds_1x2, odds_vars, pct_vars, fn_vars, rng_vars>>

\* line 269
HomeTeamData ==
    /\ pc = "home_team_data"
    /\ \E response \in OddsResponses :
        LET d == get_team_data(r, prediction_info.home_team_id, match_id, standings,
                               league_info, TRUE, response) IN
        /\ r' = d.r
        /\ odds_1x2' = d.odds_1x2
        /\ IF d.res.exc # "none"
           THEN /\ result' = Raised(d.res.exc)
                /\ pc' = "done"
                /\ home_team_data' = home_team_data
           ELSE /\ result' = result
                /\ pc' = "away_team_data"
                /\ home_team_data' = d.res.val
    /\ calls' = Append(calls, "get_team_data")
    /\ UNCHANGED <<match_id, match_details, prediction_info, league_info, standings,
                   away_team_data, factors, expected_goals, scores, odds_vars, pct_vars, fn_vars, rng_vars>>

\* line 270
AwayTeamData ==
    /\ pc = "away_team_data"
    /\ \E response \in OddsResponses :
        LET d == get_team_data(r, prediction_info.away_team_id, match_id, standings,
                               league_info, FALSE, response) IN
        /\ r' = d.r
        /\ odds_1x2' = d.odds_1x2
        /\ IF d.res.exc # "none"
           THEN /\ result' = Raised(d.res.exc)
                /\ pc' = "done"
                /\ away_team_data' = away_team_data
           ELSE /\ result' = result
                /\ pc' = "factors"
                /\ away_team_data' = d.res.val
    /\ calls' = Append(calls, "get_team_data")
    /\ UNCHANGED <<match_id, match_details, prediction_info, league_info, standings,
                   home_team_data, factors, expected_goals, scores, odds_vars, pct_vars, fn_vars, rng_vars>>

\* the call calculate_prediction_factor(**{k: v for k, v in data.items() if k != 'name'})
factor_of(data) ==
    calculate_prediction_factor(data.form, data.odds, data.position, data.goals,
                                data.league_info, data.is_home)

\* lines 272-273
ComputeFactors ==
    /\ pc = "factors"
    /\ LET home_factor == factor_of(home_team_data)
           away_factor == factor_of(away_team_data)
       IN  IF home_factor.exc # "none"
           THEN /\ result' = Raised(home_factor.exc)
                /\ pc' = "done"
                /\ factors' = factors
           ELSE IF away_factor.exc # "none"
           THEN /\ result' = Raised(away_factor.exc)
                /\ pc' = "done"
                /\ factors' = factors
           ELSE /\ result' = result
                /\ pc' = "expected_goals"
                /\ factors' = [home_factor |-> home_factor.val,
                               away_factor |-> away_factor.val]
    /\ calls' = IF factor_of(home_team_data).exc # "none"
                THEN Append(calls, "calculate_prediction_factor")
                ELSE calls \o <<"calculate_prediction_factor", "calculate_prediction_factor">>
    /\ UNCHANGED <<r, match_id, match_details, prediction_info, league_info, standings,
                   home_team_data, away_team_data, expected_goals, scores, odds_1x2,
                   odds_vars, pct_vars, fn_vars, rng_vars>>

\* line 275
ComputeExpectedGoals ==
    /\ pc = "expected_goals"
    /\ LET xg == calculate_expected_goals(factors.home_factor, factors.away_factor,
                                          league_info)
       IN  IF xg.exc # "none"
           THEN /\ result' = Raised(xg.exc)
                /\ pc' = "done"
                /\ expected_goals' = expected_goals
           ELSE /\ result' = result
                /\ pc' = "simulate"
                /\ expected_goals' = [home |-> xg.val[1], away |-> xg.val[2]]
    /\ calls' = Append(calls, "calculate_expected_goals")
    /\ UNCHANGED <<r, match_id, match_details, prediction_info, league_info, standings,
                   home_team_data, away_team_data, factors, scores, odds_1x2, odds_vars, pct_vars, fn_vars, rng_vars>>

\* lines 277-278
Simulate ==
    /\ pc = "simulate"
    /\ \E sim \in simulate_multiple_matches(expected_goals.home, expected_goals.away,
                                            num_simulations) :
        IF sim.exc # "none"
        THEN /\ result' = Raised(sim.exc)
             /\ pc' = "done"
             /\ scores' = scores
        ELSE /\ result' = result
             /\ pc' = "message"
             /\ scores' = sim.val
    /\ calls' = Append(calls, "simulate_multiple_matches")
    /\ UNCHANGED <<r, match_id, match_details, prediction_info, league_info, standings,
                   home_team_data, away_team_data, factors, expected_goals, odds_1x2,
                   odds_vars, pct_vars, fn_vars, rng_vars>>

\* lines 280-284
\* FormatMessage with the message kept in the store under the match id (mutant)
FormatMessage_cached ==
    /\ pc = "message"
    /\ LET msg == generate_prediction_message(home_team_data.name, away_team_data.name,
                      scores.home_scores, scores.away_scores,
                      expected_goals.home, expected_goals.away)
       IN  /\ result' = IF msg.exc # "none" THEN Raised(msg.exc)
                         ELSE Returned(prediction, msg.val)
           /\ r' = IF msg.exc # "none" THEN r
                    ELSE Set(r, <<"prediction", match_id>>, json_dumps(msg.val))
    /\ pc' = "done"
    /\ calls' = Append(calls, "generate_prediction_message")
    /\ UNCHANGED <<match_id, locals, odds_vars, pct_vars, fn_vars, rng_vars>>

FormatMessage ==
    /\ pc = "message"
    /\ LET msg == generate_prediction_message(home_team_data.name, away_team_data.name,
                      scores.home_scores, scores.away_scores,
                      expected_goals.home, expected_goals.away)
       IN  result' = IF msg.exc # "none" THEN Raised(msg.exc)
                     ELSE Returned(prediction, msg.val)
    /\ pc' = "done"
    /\ calls' = Append(calls, "generate_prediction_message")
    /\ UNCHANGED <<r, match_id, locals, odds_vars, pct_vars, fn_vars, rng_vars>>

Next ==
    \/ Predict
    \/ FetchMatchDetails
    \/ ExtractPredictionInfo
    \/ FetchLeagueInfo
    \/ FetchStandings
    \/ HomeTeamData
    \/ AwayTeamData
    \/ ComputeFactors
    \/ ComputeExpectedGoals
    \/ Simulate
    \/ FormatMessage

Spec == Init /\ [][Next]_vars

\* ---------------------------------------------------------------- properties of predict_match
Called(name) == \E i \in 1..Len(calls) : calls[i] = name

Failures ==
    {details_failure(match_id), extract_failure(match_id), league_failure, standings_failure}

\* predict_match returned one of its failure strings
ReturnedFailure == result.status = "returned" /\ result.text \in Failures

\* the ids the later stages need
RequiredIds(info) == {info.tournament_id, info.season_id, info.home_team_id, info.away_team_id}

\* C1: when the league baseline has no decided match, predict_match ends with a failure
\* string and never by raising. Stated for the calls in which everything else was
\* available (the four ids, both teams' factor inputs), so that the baseline alone
\* decides the outcome.
C1_ZeroBaselineAborts ==
    (/\ pc = "done"
     /\ away_team_data # PyNone
     /\ None \notin RequiredIds(prediction_info)
     /\ decided_matches(league_info) = 0)
        => ReturnedFailure

\* C2: when get_match_odds_1x2 returns None for a match whose four ids were extracted,
\* predict_match ends at that stage with a failure string: it does not raise and it
\* does not simulate.
C2_NoOddsIsAFailureString ==
    (pc = "done" /\ odds_1x2 = PyNone /\ None \notin RequiredIds(prediction_info))
        => ReturnedFailure /\ ~Called("simulate_multiple_matches")

\* C3: when the match details lack one of the four ids, predict_match stops at the
\* extraction with the 'Unable to extract prediction info' string, and no later stage
\* runs.
C3_MissingIdStopsAtExtraction ==
    (/\ Called("get_match_prediction_info")
     /\ None \in RequiredIds(match_details))
        => /\ pc = "done"
           /\ result = Returned(extract_failure(match_id), PyNone)
           /\ ~Called("get_league_info")

\* C4: a match details fetch that returns None ends predict_match with the string that
\* names the match details, a league baseline fetch that returns None ends it with
\* another string, and in neither case does predict_match raise.
C4_DistinctFailureStrings ==
    /\ (Called("fetch_and_store_match_details") /\ match_details = PyNone)
            => pc = "done" /\ result = Returned(details_failure(match_id), PyNone)
    /\ (Called("get_league_info") /\ league_info = PyNone)
            => pc = "done" /\ result = Returned(league_failure, PyNone)
    /\ \A m \in MatchIds : details_failure(m) # league_failure

\* C4 witness: a call that ended at the league baseline, which could not be fetched
C4_Witness ==
    /\ pc = "done"
    /\ Called("get_league_info")
    /\ league_info = PyNone
    /\ result.text = league_failure

\* the stages of predict_match, one entry per call it makes
StageOrder ==
    <<"fetch_and_store_match_details", "get_match_prediction_info", "get_league_info",
      "fetch_standings", "get_team_data", "get_team_data", "calculate_prediction_factor",
      "calculate_prediction_factor", "calculate_expected_goals",
      "simulate_multiple_matches", "generate_prediction_message">>

\* the calls made so far are the first stages, in order
InStageOrder == Len(calls) <= Len(StageOrder) /\ calls = SubSeq(StageOrder, 1, Len(calls))

\* C5: the stages run in the fixed order, and a stage runs only if every earlier stage
\* succeeded: the details were fetched, the four ids were extracted from them, the
\* league baseline and the standings were fetched.
C5_StageOnlyAfterSuccess ==
    /\ InStageOrder
    /\ Called("get_match_prediction_info") => match_details # PyNone
    /\ Called("get_league_info") => None \notin RequiredIds(prediction_info)
    /\ Called("fetch_standings") => ~Not(league_info)
    /\ Called("get_team_data") => standings # PyNone
    /\ (pc = "done" /\ ReturnedFailure) => ~Called("simulate_multiple_matches")

\* C6: a team that is not in the standings (position 0) gets a position factor no
\* larger than that of a ranked team.
C6_UnrankedIsWorstCase ==
    (/\ home_team_data # PyNone
     /\ away_team_data # PyNone
     /\ home_team_data.position = 0
     /\ away_team_data.position >= 1)
        => RLe(position_factor(home_team_data.position),
               position_factor(away_team_data.position))

\* ---------------------------------------------------------------- calculate_decimal_odds
Alphabet == {"0", "1", "3", "-", "/", "x"}

StringsUpTo(n) == UNION {[1..k -> Alphabet] : k \in 0..n}

OddsInit ==
    /\ frac_in \in StringsUpTo(MaxLen)
    /\ dec_out = Pending
    /\ PctIdle
    /\ FnIdle
    /\ r = EmptyStore
    /\ PredictIdle
    /\ RngIdle

ConvertOdds ==
    /\ dec_out.exc = "pending"
    /\ dec_out' = calculate_decimal_odds(frac_in)
    /\ UNCHANGED <<frac_in, pct_vars, predict_vars, fn_vars, rng_vars>>

OddsNext == ConvertOdds

SpecOdds == OddsInit /\ [][OddsNext]_vars

\* ---------------------------------------------------------------- calculate_percentage
\* the quotes: every "n/d" within the bounds, and two strings that are no fraction
MalformedQuotes == {<<"x">>, <<"1", "/">>}
Quotes == {Fraction(n, d) : n \in 0..MaxNum, d \in 0..MaxDen} \cup MalformedQuotes

Quote(q) == [fractional_value |-> q, change |-> 0]

\* the dicts get_match_odds_1x2 can build from the choices of a "Full time" market
OddsMaps == UNION {[S -> {Quote(q) : q \in Quotes}] : S \in SUBSET Outcomes}

PctInit ==
    /\ pct_in \in OddsMaps
    /\ pct_out = Pending
    /\ OddsIdle
    /\ FnIdle
    /\ r = EmptyStore
    /\ PredictIdle
    /\ RngIdle

ComputePercentage ==
    /\ pct_out.exc = "pending"
    /\ pct_out' = calculate_percentage(pct_in)
    /\ UNCHANGED <<pct_in, odds_vars, predict_vars, fn_vars, rng_vars>>

PctNext == ComputePercentage

SpecPct == PctInit /\ [][PctNext]_vars

\* ---------------------------------------------------------------- properties of calculate_decimal_odds
\* the string is two integers around one '/'
Parses(s) == ParseFraction(s).exc = "none"
Numerator(s) == ParseFraction(s).val[1]
Denominator(s) == ParseFraction(s).val[2]

\* C7: for a fractional odds string whose denominator is 0, such as "3/0",
\* calculate_decimal_odds returns 2.0 and does not raise.
C7_ZeroDenominatorGivesEvens ==
    (/\ dec_out.exc # "pending"
     /\ Parses(frac_in)
     /\ Denominator(frac_in) = 0)
        => dec_out.exc = "none" /\ dec_out.val = RInt(2)

\* C8: for "N/D" with integers N > 0 and D > 0 calculate_decimal_odds returns exactly
\* 1 + N/D, and for every other string (wrong number of parts, a part that is no
\* number, N or D zero or negative) it returns 2.0.
C8_DecimalOddsOrEvens ==
    dec_out.exc # "pending" =>
        IF Parses(frac_in) /\ Numerator(frac_in) > 0 /\ Denominator(frac_in) > 0
        THEN /\ dec_out.exc = "none"
             /\ dec_out.val = RAdd(RInt(1), Rat(Numerator(frac_in), Denominator(frac_in)))
        ELSE /\ dec_out.exc = "none"
             /\ dec_out.val = RInt(2)

\* ---------------------------------------------------------------- properties of calculate_percentage
\* a quote "N/D" of two positive integers
WellFormed(q) == Parses(q) /\ Numerator(q) > 0 /\ Denominator(q) > 0
WellFormedMap(odds) == \A o \in DOMAIN odds : WellFormed(odds[o].fractional_value)

\* a percentage of two decimals, in hundredths of a percent
Hundredths(x) == RMul(x, RInt(100))[1]

RECURSIVE SumHundredths(_, _)
SumHundredths(pct, S) ==
    IF S = {} THEN 0
    ELSE LET o == CHOOSE x \in S : TRUE IN Hundredths(pct[o]) + SumHundredths(pct, S \ {o})

\* how far the percentages are from summing to 100, in hundredths of a percent
Deviation(pct) == Abs(SumHundredths(pct, DOMAIN pct) - 10000)

\* calculate_percentage was applied to a non-empty map of well-formed quotes
WellFormedCase ==
    /\ pct_out.exc # "pending"
    /\ DOMAIN pct_in # {}
    /\ WellFormedMap(pct_in)

Evens == <<"1", "/", "1">>
WithEvens(odds) ==
    [o \in DOMAIN odds |->
        IF Parses(odds[o].fractional_value) THEN odds[o] ELSE Quote(Evens)]

\* C10: calculate_percentage does not fail on a quote that is malformed: the quote
\* counts as even odds, and when all quotes are malformed the percentages are the
\* same for every outcome. Stated for the maps whose other quotes are well-formed.
C10_MalformedQuoteIsEvens ==
    (/\ pct_out.exc # "pending"
     /\ \E o \in DOMAIN pct_in : ~Parses(pct_in[o].fractional_value)
     /\ WellFormedMap(WithEvens(pct_in)))
        => /\ pct_out.exc = "none"
           /\ pct_out.val = calculate_percentage(WithEvens(pct_in)).val
           /\ (\A o \in DOMAIN pct_in : ~Parses(pct_in[o].fractional_value))
                => \A o1, o2 \in DOMAIN pct_in : pct_out.val[o1] = pct_out.val[o2]

\* ---------------------------------------------------------------- calculate_prediction_factor
\* the baselines get_league_info can return: the season counters of a league
Baselines == {b.info : b \in {x \in LeagueInfoResponses : DOMAIN x = {"info"}}} \ {<<>>}

\* the decimal odds of a team; 1 is what calculate_decimal_odds gives for "0/1", and
\* -1 for "-2/1"
FactorOdds == {RInt(1), Rat(3, 2), RInt(2), RInt(6), RInt(-1)}
\* the form of no match, of one win, of three wins, and a form beyond three matches
FactorForms == {0, 3, 9, 12}
\* absent from the table, the leader, the 20th team, a team below the 20th
FactorPositions == {0, 1, 20, 22}

FactorArgs ==
    [form : FactorForms, odds : FactorOdds, position : FactorPositions,
     goals : 0..MaxGoals, league_info : Baselines, is_home : BOOLEAN]

FactorInit ==
    /\ args \in FactorArgs
    /\ ret = Pending
    /\ OddsIdle
    /\ PctIdle
    /\ r = EmptyStore
    /\ PredictIdle
    /\ RngIdle

\* calculate_prediction_factor(**args)
prediction_factor_of(a) ==
    calculate_prediction_factor(a.form, a.odds, a.position, a.goals, a.league_info, a.is_home)

CallPredictionFactor ==
    /\ ret.exc = "pending"
    /\ ret' = prediction_factor_of(args)
    /\ UNCHANGED <<args, odds_vars, pct_vars, predict_vars, rng_vars>>

FactorNext == CallPredictionFactor

SpecFactor == FactorInit /\ [][FactorNext]_vars

\* ---------------------------------------------------------------- properties of calculate_prediction_factor
FactorCalled == ret.exc # "pending"

\* the baseline has a decided match, and the odds are not the pole of 1 / (odds + 1)
DecidedBaseline ==
    /\ decided_matches(args.league_info) >= 1
    /\ args.odds # RInt(-1)

\* the league average: total goals / decided matches, for a decided baseline
AvgGoalsPerMatch == Rat(Get0(args.league_info, "goals"), decided_matches(args.league_info))

\* C11: for every league baseline with at least one decided match,
\* calculate_prediction_factor returns a value (it does not raise), also when the
\* total goals count of the baseline is 0.
C11_FactorIsDefined ==
    (FactorCalled /\ DecidedBaseline) => ret.exc = "none"

\* the terms of the weighted sum other than the goals term
SumWithoutGoals ==
    RAdd(RAdd(RMul(Rat(35, 100), form_factor(args.form)),
              RMul(Rat(25, 100), odds_factor(args.odds))),
         RAdd(RMul(Rat(15, 100), position_factor(args.position)),
              RMul(Rat(10, 100), home_advantage_factor(args.league_info, args.is_home))))

\* the goals_factor that went into the returned sum: (sum - other terms) / 0.15
GoalsFactorUsed == RDiv(RSub(ret.val, SumWithoutGoals), Rat(15, 100))

\* the call is one in which the league average is positive, so goals / average exists
PositiveAverageCase ==
    /\ FactorCalled
    /\ DecidedBaseline
    /\ Get0(args.league_info, "goals") >= 1

\* C12 (as stated): goals_factor = min(goals / avg_goals_per_match, 1).
C12_GoalsFactorPerMatch ==
    PositiveAverageCase =>
        /\ ret.exc = "none"
        /\ GoalsFactorUsed = RMin(RDiv(RInt(args.goals), AvgGoalsPerMatch), RInt(1))

\* C12 (amended): goals_factor = min(goals / (avg_goals_per_match * 3), 1), whenever
\* the league average is positive.
C12_GoalsFactorPerThreeMatches ==
    PositiveAverageCase =>
        /\ ret.exc = "none"
        /\ GoalsFactorUsed =
              RMin(RDiv(RInt(args.goals), RMul(AvgGoalsPerMatch, RInt(3))), RInt(1))

\* C12 witness: a call in which the two readings of the formula differ
C12_Witness ==
    /\ PositiveAverageCase
    /\ ret.exc = "none"
    /\ GoalsFactorUsed # RMin(RDiv(RInt(args.goals), AvgGoalsPerMatch), RInt(1))

\* h of C13: home_wins / decided_matches - 0.5
HomeWinRateOffset ==
    RSub(Rat(Get0(args.league_info, "homeTeamWins"), decided_matches(args.league_info)),
         Rat(1, 2))

\* the sum C13 states, for a given goals_factor
WeightedSum(gf) ==
    LET capped == IF args.position < 20 THEN args.position ELSE 20
        h == IF args.is_home THEN HomeWinRateOffset ELSE RSub(RInt(0), HomeWinRateOffset)
    IN  RAdd(RAdd(RAdd(RMul(Rat(35, 100), RMin(Rat(args.form, 9), RInt(1))),
                       RDiv(Rat(25, 100), RAdd(args.odds, RInt(1)))),
                  RAdd(RMul(Rat(15, 100), Rat(20 - capped, 20)),
                       RMul(Rat(15, 100), gf))),
             RMul(Rat(10, 100), h))

\* the same call for the other side
OtherSide == [args EXCEPT !.is_home = ~args.is_home]

\* C13: the value returned is 0.35*min(form/9,1) + 0.25/(odds+1) +
\* 0.15*(20-min(position,20))/20 + 0.15*goals_factor + 0.10*h, with h = home_wins /
\* decided_matches - 0.5 for the home side and its negation for the away side; so the
\* home value minus the away value for the same other inputs is 0.2*h. Stated for the
\* calls in which every term of the sum exists.
C13_WeightedSum ==
    PositiveAverageCase =>
        /\ ret.exc = "none"
        /\ ret.val = WeightedSum(goals_factor(args.goals, args.league_info))
        /\ args.is_home =>
              RSub(ret.val, prediction_factor_of(OtherSide).val)
                  = RMul(Rat(2, 10), HomeWinRateOffset)

\* C13 witness: a call for the away side in a league where the home side wins more
\* than half of the decided matches
C13_Witness ==
    /\ PositiveAverageCase
    /\ ret.exc = "none"
    /\ ~args.is_home
    /\ RLt(RInt(0), HomeWinRateOffset)

\* ---------------------------------------------------------------- calculate_expected_goals
\* strengths: ordinary values of calculate_prediction_factor, and extreme ones
Strengths == {Rat(-1, 2), RInt(0), Rat(3, 10), RInt(1), RInt(2)}

XGArgs == [home_factor : Strengths, away_factor : Strengths, league_info : Baselines]

XGInit ==
    /\ args \in XGArgs
    /\ ret = Pending
    /\ OddsIdle
    /\ PctIdle
    /\ r = EmptyStore
    /\ PredictIdle
    /\ RngIdle

CallExpectedGoals ==
    /\ ret.exc = "pending"
    /\ ret' = calculate_expected_goals(args.home_factor, args.away_factor, args.league_info)
    /\ UNCHANGED <<args, odds_vars, pct_vars, predict_vars, rng_vars>>

XGNext == CallExpectedGoals

SpecXG == XGInit /\ [][XGNext]_vars

\* ---------------------------------------------------------------- properties of calculate_expected_goals
\* C14: calculate_expected_goals never returns a negative value for either side,
\* whatever the two strengths are.
C14_ExpectedGoalsNotNegative ==
    ret.exc = "none" => RLe(RInt(0), ret.val[1]) /\ RLe(RInt(0), ret.val[2])

\* calculate_expected_goals was applied to a baseline with a decided match
XGDecidedCase ==
    /\ ret.exc # "pending"
    /\ decided_matches(args.league_info) >= 1

\* total goals * x / decided matches
TimesLeagueAvg(x) ==
    RDiv(RMul(RInt(Get0(args.league_info, "goals")), x),
         RInt(decided_matches(args.league_info)))

\* C15: for a baseline with at least one decided match calculate_expected_goals
\* returns home_xg = league_avg*(1 + home - away)*1.1 and away_xg = league_avg*(1 +
\* away - home), both with league_avg = total goals / decided matches; so equal
\* strengths give home_xg = 1.1 * away_xg.
C15_ExpectedGoalsFormula ==
    XGDecidedCase =>
        /\ ret.exc = "none"
        /\ RMul(ret.val[1], RInt(10)) =
              RMul(RInt(11), TimesLeagueAvg(RAdd(RInt(1), RSub(args.home_factor, args.away_factor))))
        /\ ret.val[2] = TimesLeagueAvg(RAdd(RInt(1), RSub(args.away_factor, args.home_factor)))
        /\ args.home_factor = args.away_factor
              => ret.val[1] = RMul(Rat(11, 10), ret.val[2])

\* C15 witness: equal strengths in a league that has goals, so that the boost shows
C15_Witness ==
    /\ XGDecidedCase
    /\ ret.exc = "none"
    /\ args.home_factor = args.away_factor
    /\ RLt(ret.val[2], ret.val[1])

\* ---------------------------------------------------------------- properties of the simulation report
\* predict_match returned a prediction
Predicted == pc = "done" /\ result.status = "returned" /\ result.text = prediction

\* the simulations of the last run with the given outcome
HomeWon == {i \in 1..Len(scores.home_scores) : scores.home_scores[i] > scores.away_scores[i]}
AwayWon == {i \in 1..Len(scores.home_scores) : scores.away_scores[i] > scores.home_scores[i]}
Drawn == {i \in 1..Len(scores.home_scores) : scores.home_scores[i] = scores.away_scores[i]}

\* C16: the two simulated score arrays have the same length n = 100, and the home-win,
\* away-win and draw counts of generate_prediction_message partition the n
\* simulations, so the three probabilities it reports sum to 1.
C16_OutcomesPartition ==
    /\ scores # PyNone =>
          Len(scores.home_scores) = 100 /\ Len(scores.away_scores) = 100
    /\ Predicted =>
          /\ result.report.simulations = 100
          /\ result.report.home_win_prob = Rat(Cardinality(HomeWon), 100)
          /\ result.report.away_win_prob = Rat(Cardinality(AwayWon), 100)
          /\ result.report.draw_prob = Rat(Cardinality(Drawn), 100)
          /\ Cardinality(HomeWon) + Cardinality(AwayWon) + Cardinality(Drawn) = 100
          /\ RAdd(RAdd(result.report.home_win_prob, result.report.away_win_prob),
                  result.report.draw_prob) = RInt(1)

\* C16 witness: a prediction whose simulations ended in all three outcomes
C16_Witness ==
    /\ Predicted
    /\ HomeWon # {}
    /\ AwayWon # {}
    /\ Drawn # {}

\* ---------------------------------------------------------------- simulate and report
\* expected goals: none, and two rates that are positive
Rates == {RInt(0), Rat(1, 2), RInt(2)}

SimArgs ==
    [home_expected_goals : Rates, away_expected_goals : Rates,
     num_simulations : (1..MaxSims) \cup {num_simulations}]

SimInit ==
    /\ args \in SimArgs
    /\ ret = Pending
    /\ OddsIdle
    /\ PctIdle
    /\ r = EmptyStore
    /\ PredictIdle
    /\ RngIdle

\* lines 278-281 of predict_match: the scores are simulated and the message is made
SimulateAndReport ==
    /\ ret.exc = "pending"
    /\ \E sim \in simulate_multiple_matches(args.home_expected_goals,
                                            args.away_expected_goals, args.num_simulations) :
        IF sim.exc # "none" THEN ret' = Raise(sim.exc)
        ELSE LET msg == generate_prediction_message("Home FC", "Away FC",
                            sim.val.home_scores, sim.val.away_scores,
                            args.home_expected_goals, args.away_expected_goals)
             IN  ret' = IF msg.exc # "none" THEN Raise(msg.exc)
                        ELSE Ok([scores |-> sim.val, report |-> msg.val])
    /\ UNCHANGED <<args, odds_vars, pct_vars, predict_vars, rng_vars>>

SimNext == SimulateAndReport

SpecSim == SimInit /\ [][SimNext]_vars

\* both expected-goal rates are 0, and the simulation has run
ZeroRatesCase ==
    /\ ret.exc # "pending"
    /\ RIsZero(args.home_expected_goals)
    /\ RIsZero(args.away_expected_goals)

\* C17: when both expected-goal rates are 0 every simulated scoreline is 0-0, the
\* reported home-win and away-win probabilities are 0 and the draw probability is 1.
C17_ZeroRatesAllDraws ==
    ZeroRatesCase =>
        /\ ret.exc = "none"
        /\ \A i \in 1..args.num_simulations :
              ret.val.scores.home_scores[i] = 0 /\ ret.val.scores.away_scores[i] = 0
        /\ ret.val.report.home_win_prob = RInt(0)
        /\ ret.val.report.away_win_prob = RInt(0)
        /\ ret.val.report.draw_prob = RInt(1)

\* C17 witness: the 100 simulations of predict_match with both rates 0
C17_Witness ==
    /\ ZeroRatesCase
    /\ args.num_simulations = 100
    /\ ret.exc = "none"
    /\ ret.val.report.simulations = 100

\* ---------------------------------------------------------------- the form of a team
\* a result record: the venue tag of the team ("" when the tag is absent), and the score
VenueTags == {"Home", "Away"}
OtherTags == {"Neutral", ""}
ResultRecords(tags) == [tag : tags, home_score : 0..MaxScore, away_score : 0..MaxScore]

\* the text of a record, and of a list of records as it is cached for a team
RecordText(rec) ==
    (IF rec.tag = "" THEN <<>> ELSE <<rec.tag>>) \o <<NL>> \o IntToStr[rec.home_score]
        \o <<SP, "-", SP>> \o IntToStr[rec.away_score]

RECURSIVE CachedText(_)
CachedText(recs) ==
    IF Len(recs) = 0 THEN <<>>
    ELSE IF Len(recs) = 1 THEN RecordText(recs[1])
    ELSE RecordText(recs[1]) \o <<NL, NL>> \o CachedText(Tail(recs))

HomeWin == [tag |-> "Home", home_score |-> 1, away_score |-> 0]

\* the cached results of a team: up to two records of any tag, three records with a
\* venue tag, and four of them (an older home win before three records)
RecordLists ==
    UNION {[1..k -> ResultRecords(VenueTags \cup OtherTags)] : k \in 0..2}
    \cup [1..3 -> ResultRecords(VenueTags)]
    \cup {<<HomeWin>> \o l : l \in [1..3 -> ResultRecords(VenueTags)]}

FormInit ==
    /\ \E recs \in RecordLists :
          /\ args = [team_id |-> HomeTeam, records |-> recs]
          /\ r = IF Len(recs) = 0 THEN EmptyStore
                 ELSE Set(EmptyStore, PrevKey(HomeTeam), CachedText(recs))
    /\ ret = Pending
    /\ OddsIdle
    /\ PctIdle
    /\ PredictIdle
    /\ RngIdle

\* lines 338-339 of get_team_data: the cached records are read and summed up
ReadForm ==
    /\ ret.exc = "pending"
    /\ LET last_matches == get_last_three_matches(r, args.team_id)
           fg == calculate_form_and_goals(last_matches)
       IN  ret' = [exc |-> fg.exc, val |-> fg.val, last_matches |-> Len(last_matches)]
    /\ UNCHANGED <<args, odds_vars, pct_vars, predict_vars, rng_vars>>

FormNext == ReadForm

SpecForm == FormInit /\ [][FormNext]_vars

\* ---------------------------------------------------------------- properties of calculate_form_and_goals
\* the last three of the cached records
LastThree ==
    IF Len(args.records) > 3
    THEN SubSeq(args.records, Len(args.records) - 2, Len(args.records))
    ELSE args.records

\* the points and the goals of the team in one record, seen from the given side
PointsFrom(side, rec) ==
    LET own == IF side = "Home" THEN rec.home_score ELSE rec.away_score
        other == IF side = "Home" THEN rec.away_score ELSE rec.home_score
    IN  IF own > other THEN 3 ELSE IF own = other THEN 1 ELSE 0
GoalsFrom(side, rec) == IF side = "Home" THEN rec.home_score ELSE rec.away_score

\* the sum of f over the records, for f a function of the record
RECURSIVE SumOver(_, _)
SumOver(f, recs) == IF Len(recs) = 0 THEN 0 ELSE f[Head(recs)] + SumOver(f, Tail(recs))

\* every cached record carries a venue tag
WellFormedRecords ==
    /\ ret.exc # "pending"
    /\ \A i \in 1..Len(args.records) : args.records[i].tag \in VenueTags

\* C18: for well-formed result records the form is the sum of 3 for a win, 1 for a
\* draw and 0 for a loss from the team's own side, and the goals are the sum of the
\* goals the team itself scored; get_last_three_matches returns at most 3 records, so
\* the form is never above 9.
C18_FormOfLastThree ==
    WellFormedRecords =>
        /\ ret.exc = "none"
        /\ ret.last_matches <= 3
        /\ ret.val[1] = SumOver([rec \in ResultRecords(VenueTags) |-> PointsFrom(rec.tag, rec)],
                                LastThree)
        /\ ret.val[2] = SumOver([rec \in ResultRecords(VenueTags) |-> GoalsFrom(rec.tag, rec)],
                                LastThree)
        /\ ret.val[1] <= 9

\* C18 witness: four cached wins, of which the last three give the form 9
C18_Witness ==
    /\ WellFormedRecords
    /\ Len(args.records) = 4
    /\ ret.exc = "none"
    /\ ret.val[1] = 9

\* the side C19 states for a record: home unless the record is tagged away
AssumedSide(rec) == IF rec.tag = "Away" THEN "Away" ELSE "Home"

\* a cached list with a record whose venue tag is absent or unrecognised was read
OtherTagCase ==
    /\ ret.exc # "pending"
    /\ \E i \in 1..Len(args.records) : args.records[i].tag \in OtherTags

DefaultAwaySide(rec) == IF rec.tag = "Home" THEN "Home" ELSE "Away"

TeamIds == {"T1", "T2", "T3", "T4"}

\* up to three of the teams, each once, in the order of the table
Orders ==
    {o \in UNION {[1..n -> TeamIds] : n \in 0..3} : \A i, j \in DOMAIN o : o[i] = o[j] => i = j}

\* the tables of the API: the row i holds the team at position i
Tables == {[rows |-> [i \in DOMAIN o |-> Row(o[i], i)]] : o \in Orders}

PositionArgs == [standings : Tables, team_id : TeamIds]

PositionInit ==
    /\ args \in PositionArgs
    /\ ret = Pending
    /\ OddsIdle
    /\ PctIdle
    /\ r = EmptyStore
    /\ PredictIdle
    /\ RngIdle

CallTeamPosition ==
    /\ ret.exc = "pending"
    /\ ret' = Ok(get_team_position(args.standings, args.team_id))
    /\ UNCHANGED <<args, odds_vars, pct_vars, predict_vars, rng_vars>>

PositionNext == CallTeamPosition

SpecPosition == PositionInit /\ [][PositionNext]_vars

\* ---------------------------------------------------------------- properties of get_team_position
\* the rows of the table that hold the team
RowsOfTeam ==
    {i \in 1..Len(args.standings.rows) : args.standings.rows[i].team_id = args.team_id}

\* C20: get_team_position returns 0 when no row of the standings has the team id, and
\* the 1-indexed position of the team's row when there is one (row 2 of 3 gives 2).
C20_PositionOrZero ==
    ret.exc = "none" =>
        /\ RowsOfTeam = {} => ret.val = 0
        /\ \A i \in RowsOfTeam : ret.val = i

\* C20 witness: the team in row 2 of a table of 3 rows
C20_Witness ==
    /\ ret.exc = "none"
    /\ Len(args.standings.rows) = 3
    /\ RowsOfTeam = {2}
    /\ ret.val = 2

---------------------------------------------------------------------------
\* SpecRng: two predictions draw their scores from np.random at the same time

MaxSeed == 1
Seeds == 0..MaxSeed
Callers == {"A", "B"}

\* the k-th value of the stream that np.random.seed(seed) fixes
Stream(seed, k) == (seed + (k * (k + 1)) \div 2) % (MaxScore + 1)

\* np.random.poisson(lam, n) on the module-level generator g: the array, and
\* the generator afterwards (a rate of zero takes nothing from the stream)
poisson(g, lam, n) ==
    IF RIsZero(lam) THEN [out |-> [i \in 1..n |-> 0], rng |-> g]
    ELSE [out |-> [i \in 1..n |-> Stream(g.seed, g.draws + i)],
          rng |-> [g EXCEPT !.draws = @ + n]]

Started(h, a) ==
    [pc |-> "home", home_expected_goals |-> h, away_expected_goals |-> a,
     home_scores |-> <<>>, away_scores |-> <<>>]

RngInit ==
    /\ rng \in [seed : Seeds, draws : {0}]
    /\ sims \in [Callers -> {Started(h, a) : h \in Rates, a \in Rates}]
    /\ OddsIdle
    /\ PctIdle
    /\ FnIdle
    /\ r = EmptyStore
    /\ PredictIdle

\* line 418 of simulate_multiple_matches, run by caller t
DrawHome(t) ==
    /\ sims[t].pc = "home"
    /\ LET d == poisson(rng, sims[t].home_expected_goals, MaxSims)
       IN  /\ rng' = d.rng
           /\ sims' = [sims EXCEPT ![t].home_scores = d.out, ![t].pc = "away"]
    /\ UNCHANGED <<odds_vars, pct_vars, predict_vars, fn_vars>>

\* line 419 of simulate_multiple_matches, run by caller t
DrawAway(t) ==
    /\ sims[t].pc = "away"
    /\ LET d == poisson(rng, sims[t].away_expected_goals, MaxSims)
       IN  /\ rng' = d.rng
           /\ sims' = [sims EXCEPT ![t].away_scores = d.out, ![t].pc = "done"]
    /\ UNCHANGED <<odds_vars, pct_vars, predict_vars, fn_vars>>

RngNext == \E t \in Callers : DrawHome(t) \/ DrawAway(t)

SpecRng == RngInit /\ [][RngNext]_vars

\* the scores caller t gets from the seed when nothing else draws
Alone(t) ==
    LET g0 == [seed |-> rng.seed, draws |-> 0]
        h  == poisson(g0, sims[t].home_expected_goals, MaxSims)
        a  == poisson(h.rng, sims[t].away_expected_goals, MaxSims)
    IN  [home_scores |-> h.out, away_scores |-> a.out]

\* C21: with a fixed seed, the scores one prediction simulates are the scores
\* it simulates alone, whatever another prediction draws in the meantime
C21_ScoresIndependentOfOtherCaller ==
    \A t \in Callers :
        sims # <<>> /\ sims[t].pc = "done" =>
            /\ sims[t].home_scores = Alone(t).home_scores
            /\ sims[t].away_scores = Alone(t).away_scores

---------------------------------------------------------------------------
\* the store during predict_match

\* the kinds of key the collaborators of predict_match cache what they fetched under
InputCaches ==
    {"match_details", "standings", "standings_time", "match_odds", "team_previous_matches"}

\* C22: a prediction is never cached. Every key of the store is a cache of fetched
\* inputs, none holds a prediction or simulated scores, and a call that returned a
\* prediction ran simulate_multiple_matches and generate_prediction_message itself,
\* also when everything it fetched was in the store already.
C22_PredictionNeverCached ==
    /\ \A k \in DOMAIN r : k[1] \in InputCaches
    /\ Predicted =>
          /\ Called("simulate_multiple_matches")
          /\ Called("generate_prediction_message")
          /\ scores # PyNone

\* a prediction was returned for a match whose details, standings and odds were cached
C22_Witness ==
    /\ Predicted
    /\ <<"match_details", match_id>> \in DOMAIN r
    /\ <<"standings", prediction_info.tournament_id, prediction_info.season_id>> \in DOMAIN r
    /\ <<"match_odds", match_id>> \in DOMAIN r
    /\ Called("simulate_multiple_matches")

---------------------------------------------------------------------------
\* SpecStandings: the standings in the store, fetch_standings and the Refresh button

Leagues == {"t1", "t2"}
SeasonIds == {"s1", "s0"}
SeasonsKey(l) == <<"league", l, "seasons">>

\* what make_api_request returns for the standings: None, an empty payload, the raw
\* content of a response that is not JSON, or a table
StandingsApi ==
    {PyNone, <<>>, RawContent,
     [rows |-> <<Row(HomeTeam, 1), Row(AwayTeam, 2)>>],
     [rows |-> <<Row(AwayTeam, 1)>>]}

\* the seasons store_league_seasons wrote for a league, the latest one first
SeasonLists == {<<[id |-> "s1"]>>, <<[id |-> "s1"], [id |-> "s0"]>>}

\* the store before any standings are cached: each league without seasons or with some
SeasonStores ==
    {[k \in {SeasonsKey(l) : l \in ls} |-> json_dumps(f[k[2]])] :
        ls \in SUBSET Leagues, f \in [Leagues -> SeasonLists]}

Remove(store, key) == [k \in DOMAIN store \ {key} |-> store[k]]

\* delete_standings: the key is made of the league id alone
delete_standings(store, league_id) == Remove(store, <<"standings", league_id>>)

\* get_seasons and get_first_season_id
get_first_season_id(store, league_id) ==
    IF SeasonsKey(league_id) \in DOMAIN store
       /\ Len(json_loads(store[SeasonsKey(league_id)])) > 0
    THEN json_loads(store[SeasonsKey(league_id)])[1].id
    ELSE None

no_league_selected == "Please select a league first!"
no_standings == "No standings data available for this league."
no_season == "No season data found"
refresh_error == "An error occurred while refreshing standings."

\* refresh_standings for the league selected in the combobox ("" when none is): the
\* store afterwards, what the window shows, and whether the API was asked
refresh_standings(store, league_id, response) ==
    IF league_id = ""
    THEN [r |-> store, shown |-> no_league_selected, requested |-> FALSE]
    ELSE LET deleted == delete_standings(store, league_id)
             season_id == get_first_season_id(deleted, league_id)
             f == fetch_standings(deleted, league_id, season_id, response)
         IN  IF season_id = None
             THEN [r |-> deleted, shown |-> no_season, requested |-> FALSE]
             ELSE IF f.exc # "none"
             THEN [r |-> f.r, shown |-> refresh_error, requested |-> f.requested]
             ELSE IF Not(f.ret)
             THEN [r |-> f.r, shown |-> no_standings, requested |-> f.requested]
             ELSE [r |-> f.r, shown |-> f.ret, requested |-> f.requested]

frame_vars == <<pc, match_id, locals, result, calls>>

StandingsInit ==
    /\ r \in SeasonStores
    /\ FnIdle
    /\ OddsIdle
    /\ PctIdle
    /\ PredictIdle
    /\ RngIdle

\* fetch_standings(league_id, season_id), as the league list and initialize_leagues call it
CallFetchStandings ==
    /\ \E l \in Leagues, s \in SeasonIds, response \in StandingsApi :
        LET f == fetch_standings(r, l, s, response) IN
        /\ r' = f.r
        /\ ret' = [op |-> "fetch_standings", exc |-> f.exc, val |-> f.ret,
                   requested |-> f.requested, before |-> r]
        /\ args' = [league_id |-> l, season_id |-> s, response |-> response]
    /\ UNCHANGED <<frame_vars, odds_vars, pct_vars, rng_vars>>

\* the Refresh button
RefreshStandings ==
    /\ \E l \in Leagues \cup {""}, response \in StandingsApi :
        LET f == refresh_standings(r, l, response) IN
        /\ r' = f.r
        /\ ret' = [op |-> "refresh_standings", exc |-> "none", val |-> f.shown,
                   requested |-> f.requested, before |-> r]
        /\ args' = [league_id |-> l, season_id |-> get_first_season_id(r, l),
                    response |-> response]
    /\ UNCHANGED <<frame_vars, odds_vars, pct_vars, rng_vars>>

StandingsNext == CallFetchStandings \/ RefreshStandings

SpecStandings == StandingsInit /\ [][StandingsNext]_vars

StandingsKey == <<"standings", args.league_id, args.season_id>>

\* the last operation was the Refresh button for a league whose first season had
\* standings in the store
RefreshedCached ==
    /\ ret.exc # "pending"
    /\ ret.op = "refresh_standings"
    /\ args.league_id # ""
    /\ args.season_id # None
    /\ StandingsKey \in DOMAIN ret.before

\* C23: after refresh_standings for a league whose first season has cached standings,
\* the cached standings were deleted and the API was asked again; the standings shown
\* are the response of that request, never the value cached before.
C23_RefreshFetchesAgain ==
    RefreshedCached =>
        /\ ret.requested
        /\ ret.val \in {no_standings, refresh_error} \/ ret.val = args.response

Fetched == ret.exc # "pending" /\ ret.op = "fetch_standings"
\* the response is one fetch_standings takes for standings: a non-empty JSON payload
Successful(response) == ~Not(response) /\ ~IsBytes(response)

\* C25: fetch_standings is a read-through cache. Cached standings are returned without
\* an API request. On a miss answered by a non-empty JSON payload, the payload is
\* returned and stored under that league and season, so that the next fetch_standings
\* for them returns the same data without a request, whatever the API would answer.
\* On a miss that the API answers otherwise (None, an empty payload, or raw content,
\* for which store_standings raises TypeError), the store is left unchanged.
C25_ReadThroughCache ==
    Fetched =>
        IF StandingsKey \in DOMAIN ret.before
        THEN /\ ret.val = json_loads(ret.before[StandingsKey])
             /\ ~ret.requested
        ELSE IF Successful(args.response)
        THEN /\ ret.val = args.response
             /\ StandingsKey \in DOMAIN r
             /\ json_loads(r[StandingsKey]) = args.response
             /\ \A again \in StandingsApi :
                  LET f == fetch_standings(r, args.league_id, args.season_id, again)
                  IN  f.ret = ret.val /\ ~f.requested /\ f.exc = "none"
        ELSE r = ret.before

\* a miss was answered with a table
C25_Witness ==
    /\ Fetched
    /\ StandingsKey \notin DOMAIN ret.before
    /\ Successful(args.response)
    /\ ret.requested
    /\ StandingsKey \in DOMAIN r

---------------------------------------------------------------------------
\* SpecInitialize: initialize_leagues, run when the application starts

\* what json.load gives for settings.json, or the exception open / json.load raises;
\* a settings file without 'leagues' has the default, the empty list
LeagueLists == {<<>>, <<"t1">>, <<"t1", "t2">>, <<"t2", "t1">>, <<"t1", "t1">>}
SettingsOutcomes ==
    {Raise("FileNotFoundError"), Raise("JSONDecodeError")}
    \cup {Ok([leagues |-> ls]) : ls \in LeagueLists}

InfoKey(l) == <<"league_info", l>>
ImageKey(l) == <<"league_image", l>>
Image == [content |-> "png"]
Table == [rows |-> <<Row(HomeTeam, 1), Row(AwayTeam, 2)>>]

\* the store at the start: empty, league t1 with its info alone, league t1 complete
StartStores ==
    {EmptyStore,
     Set(EmptyStore, InfoKey("t1"), json_dumps([name |-> "League"])),
     Set(Set(Set(Set(EmptyStore, InfoKey("t1"), json_dumps([name |-> "League"])),
                 SeasonsKey("t1"), json_dumps(<<[id |-> "s1"]>>)),
             <<"standings", "t1", "s1">>, json_dumps(Table)),
         ImageKey("t1"), Image)}

\* what make_api_request returns to each step
InfoApi == {PyNone, <<>>, RawContent, [name |-> "League"]}
SeasonsApi == {PyNone, RawContent, [seasons |-> <<>>], [seasons |-> <<[id |-> "s1"]>>]}
TablesApi == {PyNone, RawContent, Table}
ImageApi == {PyNone, Image, [name |-> "League"]}

\* the outcome of one step on the league: the store afterwards, and "ok" to go on with
\* the league, "failed" for a fetch without result, "raised" for an exception
StepResult(store, outcome) == [r |-> store, outcome |-> outcome]

\* lines 55-64: store_league_info dumps a dict and writes anything else as it is
league_info_step(store, l, response) ==
    IF InfoKey(l) \in DOMAIN store THEN StepResult(store, "ok")
    ELSE IF Not(response) THEN StepResult(store, "failed")
    ELSE StepResult(Set(Set(store, InfoKey(l),
                            IF IsBytes(response) THEN response ELSE json_dumps(response)),
                        <<"league_info_time", l>>, [last_fetched |-> 0]), "ok")

\* lines 67-76: fetch_league_seasons calls response.get, which raw content has not
league_seasons_step(store, l, response) ==
    IF get_first_season_id(store, l) # None THEN StepResult(store, "ok")
    ELSE IF Not(response) THEN StepResult(store, "failed")
    ELSE IF IsBytes(response) THEN StepResult(store, "raised")
    ELSE IF Len(response.seasons) = 0 THEN StepResult(store, "failed")
    ELSE StepResult(Set(store, SeasonsKey(l), json_dumps(response.seasons)), "ok")

\* lines 79-91: fetch_standings has stored what it returns; store_standings writes it
\* once more
standings_step(store, l, response) ==
    LET latest_season == get_first_season_id(store, l)
        f == fetch_standings(store, l, latest_season, response)
    IN  IF latest_season = None THEN StepResult(store, "ok")
        ELSE IF f.exc # "none" THEN StepResult(f.r, "raised")
        ELSE IF Not(f.ret) THEN StepResult(f.r, "failed")
        ELSE StepResult(f.r, "ok")

\* lines 94-102: r.set of store_league_image raises DataError for a dict
league_image_step(store, l, response) ==
    IF ImageKey(l) \in DOMAIN store THEN StepResult(store, "ok")
    ELSE IF Not(response) THEN StepResult(store, "failed")
    ELSE IF ~IsBytes(response) THEN StepResult(store, "raised")
    ELSE StepResult(Set(store, ImageKey(l), response), "ok")

At(i, step) == [i |-> i, at |-> step]
Finished == At(0, "done")
\* the loop goes to the league after the i-th one, if there is one
NextLeague(i) == IF i < Len(args.val.leagues) THEN At(i + 1, "info") ELSE Finished

InitializeInit ==
    /\ args \in SettingsOutcomes
    /\ r \in StartStores
    /\ pc = At(0, "load")
    /\ ret = Pending
    /\ calls = <<>>
    /\ match_id = None
    /\ result = Running
    /\ match_details = PyNone
    /\ prediction_info = PyNone
    /\ league_info = PyNone
    /\ standings = PyNone
    /\ home_team_data = PyNone
    /\ away_team_data = PyNone
    /\ factors = PyNone
    /\ expected_goals = PyNone
    /\ scores = PyNone
    /\ odds_1x2 = NotCalled
    /\ OddsIdle
    /\ PctIdle
    /\ RngIdle

init_frame == <<args, match_id, locals, result, odds_vars, pct_vars, rng_vars>>

\* lines 33-49: the settings are read; without leagues the function returns
LoadSettings ==
    /\ pc = At(0, "load")
    /\ IF args.exc # "none" \/ Len(args.val.leagues) = 0
       THEN pc' = Finished /\ ret' = Ok(None)
       ELSE pc' = At(1, "info") /\ ret' = ret
    /\ UNCHANGED <<r, calls, init_frame>>

\* the league the loop is at
CurrentLeague == args.val.leagues[pc.i]

\* one step of the loop body for the league at pc.i: it ends in one of the results the
\* responses of the API give it, or in an exception of the store client, which line 104
\* catches as it catches the exceptions of the step itself. "after" is where the loop
\* goes when the step lets the league go on.
Step(step, results, after, continues) ==
    /\ pc.at = step
    /\ \E s \in results \cup {StepResult(r, "raised")} :
        /\ r' = s.r
        /\ calls' = Append(calls, [league |-> pc.i, step |-> step, outcome |-> s.outcome])
        /\ pc' = IF s.outcome = "ok" \/ (continues /\ s.outcome = "failed")
                 THEN (IF after = "next" THEN NextLeague(pc.i) ELSE At(pc.i, after))
                 ELSE NextLeague(pc.i)
        /\ ret' = IF pc' = Finished THEN Ok(None) ELSE ret
    /\ UNCHANGED init_frame

\* LeagueInfo that goes on with the league when its info could not be fetched (mutant)
LeagueInfo_without_continue ==
    Step("info", {league_info_step(r, CurrentLeague, response) : response \in InfoApi},
         "seasons", TRUE)

LeagueInfo ==
    Step("info", {league_info_step(r, CurrentLeague, response) : response \in InfoApi},
         "seasons", FALSE)

LeagueSeasons ==
    Step("seasons", {league_seasons_step(r, CurrentLeague, response) : response \in SeasonsApi},
         "standings", FALSE)

LeagueStandings ==
    Step("standings", {standings_step(r, CurrentLeague, response) : response \in TablesApi},
         "image", TRUE)

LeagueImage ==
    Step("image", {league_image_step(r, CurrentLeague, response) : response \in ImageApi},
         "next", TRUE)

InitializeNext ==
    \/ LoadSettings
    \/ LeagueInfo
    \/ LeagueSeasons
    \/ LeagueStandings
    \/ LeagueImage

\* every call the function makes returns or raises, so the function takes its next step
SpecInitialize == InitializeInit /\ [][InitializeNext]_vars /\ WF_vars(InitializeNext)

Logged(i, step) == \E k \in 1..Len(calls) : calls[k].league = i /\ calls[k].step = step
LaterSteps == {"standings", "image"}

\* no exception leaves the function, and when it has returned every league of the
\* settings was taken up; a league whose info or seasons step failed or raised had no
\* later step
InitializeSafe ==
    /\ ret.exc \in {"pending", "none"}
    /\ pc = Finished /\ args.exc = "none" =>
          \A i \in 1..Len(args.val.leagues) : Logged(i, "info")
    /\ \A k \in 1..Len(calls) :
          calls[k].step \in {"info", "seasons"} /\ calls[k].outcome # "ok" =>
              ~\E j \in (k + 1)..Len(calls) : calls[j].league = calls[k].league

---------------------------------------------------------------------------
\* SpecDetails: fetch_and_store_match_details called for one match after another

DetailIds == {"m1", "m2"}

\* what make_api_request returns for a match: the payloads predict_match is given, an
\* empty payload, or the raw content of a response that is not JSON
DetailsApi(m) == DetailsResponses(m) \cup {<<>>, RawContent}

DetailsInit ==
    /\ r = EmptyStore
    /\ FnIdle
    /\ OddsIdle
    /\ PctIdle
    /\ PredictIdle
    /\ RngIdle

CallMatchDetails ==
    /\ \E m \in DetailIds :
        \E response \in DetailsApi(m) :
            LET f == fetch_and_store_match_details(r, m, response) IN
            /\ r' = f.r
            /\ ret' = [exc |-> "none", val |-> f.ret, requested |-> f.requested,
                       before |-> r]
            /\ args' = [match_id |-> m, response |-> response]
    /\ UNCHANGED <<frame_vars, odds_vars, pct_vars, rng_vars>>

DetailsNext == CallMatchDetails

SpecDetails == DetailsInit /\ [][DetailsNext]_vars

DetailsKey == <<"match_details", args.match_id>>

\* C26: fetch_and_store_match_details returns the cached details without an API request
\* when match_details:{id} is present. When it is absent, the API is asked: a request
\* that fails (None or an empty payload) or ends in an exception (json.dumps of raw
\* content) gives None and leaves the store unchanged, and otherwise the details
\* returned are the response, stored under match_details:{id} and nothing else.
C26_DetailsCachedOrStored ==
    ret.exc = "none" =>
        IF DetailsKey \in DOMAIN ret.before
        THEN /\ ret.val = json_loads(ret.before[DetailsKey])
             /\ ~ret.requested
             /\ r = ret.before
        ELSE /\ ret.requested
             /\ Not(args.response) \/ IsBytes(args.response) => ret.val = PyNone
             /\ IF ret.val = PyNone THEN r = ret.before
                ELSE /\ ret.val = args.response
                     /\ r = Set(ret.before, DetailsKey, json_dumps(ret.val))

\* details fetched for a second match were stored next to those of the first
C26_Witness ==
    /\ ret.exc = "none"
    /\ ret.requested
    /\ ret.val # PyNone
    /\ DOMAIN ret.before # {}
    /\ DetailsKey \notin DOMAIN ret.before
    /\ json_loads(r[DetailsKey]) = args.response

---------------------------------------------------------------------------
\* SpecMatches: the recent results of a team in the store, as the Last Matches window,
\* fetch_previous_matches and store_last_three_matches write them and get_team_data
\* reads them

Teams == {HomeTeam, AwayTeam}

\* an event of the payload; the names are those of Formatted
Event(h, a) == [homeScore |-> h, awayScore |-> a]
EventLists ==
    {<<>>, <<Event(2, 1)>>, <<Event(0, 0)>>, <<Event(2, 1), Event(0, 1)>>,
     <<Event(1, 0), Event(2, 1), Event(0, 0), Event(1, 1)>>}
PreviousPayloads == {[events |-> es] : es \in EventLists}

\* what make_api_request returns for the previous matches of a team
PreviousApi == {PyNone, <<>>, RawContent} \cup PreviousPayloads

\* json.dumps of a payload, as text
EventText(e) ==
    <<"[">> \o IntToStr[e.homeScore] \o <<",">> \o IntToStr[e.awayScore] \o <<"]">>
Events == [homeScore : Nat, awayScore : Nat]
EventsText[es \in Seq(Events)] ==
    IF Len(es) = 0 THEN <<>> ELSE EventText(es[1]) \o EventsText[Tail(es)]
json_dumps_text(payload) == <<"{", "events", ":">> \o EventsText[payload.events] \o <<"}">>

\* json.loads of a text: the payload it is the dump of, JSONDecodeError for any other
json_loads_text(text) ==
    IF \E p \in PreviousPayloads : json_dumps_text(p) = text
    THEN Ok(CHOOSE p \in PreviousPayloads : json_dumps_text(p) = text)
    ELSE Raise("JSONDecodeError")

\* "\n".join(parts)
JoinNL[parts \in Seq(Str)] ==
    IF Len(parts) = 0 THEN <<>>
    ELSE IF Len(parts) = 1 THEN parts[1]
    ELSE parts[1] \o <<NL>> \o JoinNL[Tail(parts)]

\* format_last_three_matches: the first three events, one text each
format_last_three_matches(matches_data) ==
    LET events == matches_data.events
        first == SubSeq(events, 1, IF Len(events) < 3 THEN Len(events) ELSE 3)
    IN  JoinNL[[i \in 1..Len(first) |-> Formatted(first[i].homeScore, first[i].awayScore)]]

store_last_three_matches(store, team_id, formatted_matches) ==
    IF Len(formatted_matches) > 0 THEN Set(store, PrevKey(team_id), formatted_matches)
    ELSE store

\* fetch_previous_matches: json.loads of the cached value, else the response of the
\* API, dumped into the store when it is true in Python's sense (TypeError for raw
\* content), [] being returned when it is not
fetch_previous_matches(store, team_id, response) ==
    IF PrevKey(team_id) \in DOMAIN store /\ Len(store[PrevKey(team_id)]) > 0
    THEN [res |-> json_loads_text(store[PrevKey(team_id)]), r |-> store]
    ELSE IF Not(response) THEN [res |-> Ok(<<>>), r |-> store]
    ELSE IF IsBytes(response) THEN [res |-> Raise("TypeError"), r |-> store]
    ELSE [res |-> Ok(response), r |-> Set(store, PrevKey(team_id), json_dumps_text(response))]

\* get_previous_matches: the events of the cached payload, None without one
get_previous_matches(store, team_id) ==
    IF PrevKey(team_id) \in DOMAIN store /\ Len(store[PrevKey(team_id)]) > 0
       /\ json_loads_text(store[PrevKey(team_id)]).exc = "none"
    THEN json_loads_text(store[PrevKey(team_id)]).val.events
    ELSE None

could_not_fetch == "Could not fetch last matches for team ID"
failed_to_fetch == "Failed to fetch last matches for team ID"

\* show_last_matches: the store afterwards and what is shown, the records in a window
\* or an error box
show_last_matches(store, team_id, response) ==
    LET last_matches == get_last_three_matches(store, team_id)
        f == fetch_previous_matches(store, team_id, response)
        stored == store_last_three_matches(f.r, team_id, format_last_three_matches(f.res.val))
        again == get_last_three_matches(stored, team_id)
    IN  IF Len(last_matches) > 0 THEN [r |-> store, shown |-> last_matches]
        ELSE IF f.res.exc # "none" THEN [r |-> f.r, shown |-> failed_to_fetch]
        ELSE IF Not(f.res.val) THEN [r |-> f.r, shown |-> could_not_fetch]
        ELSE IF Len(again) > 0 THEN [r |-> stored, shown |-> again]
        ELSE [r |-> stored, shown |-> could_not_fetch]

MatchesInit ==
    /\ r = EmptyStore
    /\ FnIdle
    /\ OddsIdle
    /\ PctIdle
    /\ PredictIdle
    /\ RngIdle

Done(op, exc, val) == [op |-> op, exc |-> exc, val |-> val]

\* the button of a team in the standings
ShowLastMatches ==
    /\ \E t \in Teams, response \in PreviousApi :
        LET f == show_last_matches(r, t, response) IN
        /\ r' = f.r
        /\ ret' = Done("show_last_matches", "none", f.shown)
        /\ args' = [team_id |-> t]
    /\ UNCHANGED <<frame_vars, odds_vars, pct_vars, rng_vars>>

CallFetchPreviousMatches ==
    /\ \E t \in Teams, response \in PreviousApi :
        LET f == fetch_previous_matches(r, t, response) IN
        /\ r' = f.r
        /\ ret' = Done("fetch_previous_matches", f.res.exc, f.res.val)
        /\ args' = [team_id |-> t]
    /\ UNCHANGED <<frame_vars, odds_vars, pct_vars, rng_vars>>

CallStoreLastThree ==
    /\ \E t \in Teams, matches_data \in PreviousPayloads :
        /\ r' = store_last_three_matches(r, t, format_last_three_matches(matches_data))
        /\ ret' = Done("store_last_three_matches", "none", None)
        /\ args' = [team_id |-> t]
    /\ UNCHANGED <<frame_vars, odds_vars, pct_vars, rng_vars>>

\* lines 338-339 of get_team_data, for a team of the match to predict
FormOfStored ==
    /\ \E t \in Teams :
        LET fg == calculate_form_and_goals(get_last_three_matches(r, t)) IN
        /\ ret' = Done("calculate_form_and_goals", fg.exc, fg.val)
        /\ args' = [team_id |-> t]
    /\ UNCHANGED <<r, frame_vars, odds_vars, pct_vars, rng_vars>>

MatchesNext ==
    \/ ShowLastMatches
    \/ CallFetchPreviousMatches
    \/ CallStoreLastThree
    \/ FormOfStored

SpecMatches == MatchesInit /\ [][MatchesNext]_vars

\* a text record of format_last_three_matches
IsFormattedRecord(text) == Len(text) > 0 /\ text[1] = "Tournament:"

\* C27: the value under team_previous_matches:{team_id} suits every reader of the key:
\* the elements get_last_three_matches returns are formatted text records, and
\* json.loads, which fetch_previous_matches and get_previous_matches apply to the
\* value, decodes it.
C27_CachedValueSuitsEveryReader ==
    \A t \in Teams :
        PrevKey(t) \in DOMAIN r =>
            /\ \A i \in DOMAIN get_last_three_matches(r, t) :
                  IsFormattedRecord(get_last_three_matches(r, t)[i])
            /\ json_loads_text(r[PrevKey(t)]).exc = "none"

\* the texts store_last_three_matches writes for the output of format_last_three_matches
FormattedTexts == {format_last_three_matches(p) : p \in PreviousPayloads} \ {<<>>}

\* C28: the records read back by get_last_three_matches from a stored output of
\* format_last_three_matches are accepted by calculate_form_and_goals, which returns
\* form and goals for them without an error.
C28_FormattedRecordsAccepted ==
    /\ ret.exc # "pending"
    /\ ret.op = "calculate_form_and_goals"
    /\ PrevKey(args.team_id) \in DOMAIN r
    /\ r[PrevKey(args.team_id)] \in FormattedTexts
    => ret.exc = "none"

---------------------------------------------------------------------------
\* predict_match for teams without cached results

NoCachedResults(team_id) == PrevKey(team_id) \notin DOMAIN r
FormErrors == {"ValueError", "IndexError"}
LastCall == calls[Len(calls)]

\* C29: for a team without cached recent results predict_match neither aborts nor
\* fetches them. The team's form and goals are both 0, get_team_data does not raise
\* an error of the Form Extractor for it, and the store holds no recent results but
\* those it held when the application started.
C29_NoCachedResultsGiveZeroForm ==
    /\ home_team_data # PyNone /\ NoCachedResults(prediction_info.home_team_id) =>
          home_team_data.form = 0 /\ home_team_data.goals = 0
    /\ away_team_data # PyNone /\ NoCachedResults(prediction_info.away_team_id) =>
          away_team_data.form = 0 /\ away_team_data.goals = 0
    /\ result.status = "raised" /\ LastCall = "get_team_data" =>
          /\ home_team_data = PyNone /\ NoCachedResults(prediction_info.home_team_id) =>
                result.exc \notin FormErrors
          /\ home_team_data # PyNone /\ NoCachedResults(prediction_info.away_team_id) =>
                result.exc \notin FormErrors
    /\ \A k \in DOMAIN r :
          k[1] = "team_previous_matches" =>
              \E store \in InitialStores : k \in DOMAIN store /\ store[k] = r[k]

\* a prediction was returned for two teams without cached results
C29_Witness ==
    /\ Predicted
    /\ NoCachedResults(prediction_info.home_team_id)
    /\ NoCachedResults(prediction_info.away_team_id)
    /\ home_team_data.form = 0
    /\ away_team_data.goals = 0
    /\ Called("simulate_multiple_matches")

---------------------------------------------------------------------------
\* the range of the strengths (under SpecFactor)

\* inputs as predict_match makes them from well-formed data
WellFormedInputs(a) ==
    /\ a.form >= 0
    /\ RLe(RInt(1), a.odds)
    /\ a.position >= 0
    /\ a.goals >= 0
    /\ decided_matches(a.league_info) >= 1
    /\ Get0(a.league_info, "goals") > 0

\* the inputs of the other team of the match: the other side in the same league, with
\* the least and the greatest of each input
OpponentArgs ==
    {[form |-> f, odds |-> o, position |-> p, goals |-> g,
      league_info |-> args.league_info, is_home |-> ~args.is_home] :
        f \in {0, 12}, o \in {RInt(1), RInt(6)}, p \in {0, 22}, g \in {0, MaxGoals}}

InRange(x) == RLe(Rat(-1, 20), x) /\ RLe(x, Rat(33, 40))
RAbs(x) == IF x[1] < 0 THEN <<-x[1], x[2]>> ELSE x
NotNegative(x) == RLe(RInt(0), x)

\* C30: for well-formed inputs (form >= 0, decimal odds >= 1, position >= 0,
\* goals >= 0, a baseline with a decided match and with goals) the strength lies in
\* [-0.05, 0.825]; hence it differs by less than 1 from the strength of any opponent
\* with well-formed inputs, and both expected-goal rates computed from the two are
\* not negative. The values are the exact ones of the formula, without the rounding
\* of binary floating point.
C30_StrengthInRange ==
    FactorCalled /\ WellFormedInputs(args) =>
        /\ ret.exc = "none"
        /\ InRange(ret.val)
        /\ \A o \in OpponentArgs :
              LET other == prediction_factor_of(o)
                  home == IF args.is_home THEN ret.val ELSE other.val
                  away == IF args.is_home THEN other.val ELSE ret.val
                  xg == calculate_expected_goals(home, away, args.league_info)
              IN  /\ other.exc = "none"
                  /\ InRange(other.val)
                  /\ RLt(RAbs(RSub(home, away)), RInt(1))
                  /\ xg.exc = "none"
                  /\ NotNegative(xg.val[1])
                  /\ NotNegative(xg.val[2])

\* the caps of form and position act at the shortest odds, and the strength is high
C30_Witness ==
    /\ FactorCalled
    /\ WellFormedInputs(args)
    /\ args.form = 12
    /\ args.position = 0
    /\ args.odds = RInt(1)
    /\ RLt(Rat(7, 10), ret.val)

====
